---- MODULE Spec2Model ----
(***************************************************************************)
(* go-vcard: the contact record (VCard), its setters and adders, Validate, *)
(* String (the vCard encoder), Reset and Clone, with the value escaping    *)
(* and line folding helpers.                                               *)
(*                                                                         *)
(* A Go string is a TLA+ string read as its sequence of code points; its   *)
(* byte length (Go's len) is ByteLen.  Slices are headers (arr, len) over  *)
(* backing arrays that live in `heap`, maps are heap objects too, so that  *)
(* sharing between a card, its clone and a returned slice is visible.      *)
(***************************************************************************)
EXTENDS Integers, Sequences, FiniteSets, TLC

VARIABLES
    v,        \* the card under construction (*VCard)
    c,        \* the card returned by v.Clone(), or NoCard
    heap,     \* backing arrays of the slices and the customProps maps
    ret,      \* what the last call returned, and on which card it was made
    steps,    \* number of calls made so far
    arg,      \* argument of a helper function (escapeValue, foldLine)
    res,      \* results of the helper functions on arg; what a getter returned
    pc,       \* position of the helper-function run; the kind of run
    held,     \* the slices and the map the program got from the Get...s() calls
    file      \* the file at the path given to SaveToFile: NoFile or its content

cardVars == <<v, c, heap, ret, steps, held, file>>
fnVars == <<arg, res, pc>>
vars == <<v, c, heap, ret, steps, arg, res, pc, held, file>>

----------------------------------------------------------------------------
(* Bounds of the model *)

\* calls made on the cards in one run
MaxSteps == 3
\* calls made in a run of adders, Reset and getters
MaxGetSteps == 4
\* length of the strings given to escapeValue / unescapeValue
MaxEscLen == 3
\* number of wide (multi-byte) runes placed in a line given to foldLine
MaxWide == 3

\* foldLine's width (bytes): `len(line) <= 75`, `i%75 == 0`
FoldWidth == 75

----------------------------------------------------------------------------
(* Go strings.  The recursive helpers split their argument in halves, or   *)
(* step from one match to the next, to keep the evaluation shallow.        *)

RECURSIVE Repeat(_, _)
\* strings.Repeat
Repeat(s, n) ==
    IF n <= 0 THEN ""
    ELSE IF n = 1 THEN s
    ELSE Repeat(s, n \div 2) \o Repeat(s, n - (n \div 2))

\* the i-th code point of s (1-based), as a one-rune string
At(s, i) == SubSeq(s, i, i)

\* the suffix of s from code point i
From(s, i) == SubSeq(s, i, Len(s))

\* utf8.RuneLen for the runes the model uses
RuneLen(ch) ==
    IF ch \in {"é", "É"} THEN 2
    ELSE IF ch = "€" THEN 3
    ELSE 1

RECURSIVE ByteLen(_)
\* Go's len(s): the number of bytes of s
ByteLen(s) ==
    IF s = "" THEN 0
    ELSE IF Len(s) = 1 THEN RuneLen(s)
    ELSE ByteLen(SubSeq(s, 1, Len(s) \div 2)) + ByteLen(From(s, (Len(s) \div 2) + 1))

\* strings.HasPrefix
HasPrefix(s, prefix) ==
    /\ Len(s) >= Len(prefix)
    /\ SubSeq(s, 1, Len(prefix)) = prefix

\* strings.Index, 1-based; 0 when substr does not occur
Index(s, substr) ==
    LET hits == {i \in 1..(Len(s) - Len(substr) + 1) :
                    SubSeq(s, i, i + Len(substr) - 1) = substr}
    IN IF hits = {} THEN 0 ELSE CHOOSE i \in hits : \A j \in hits : i <= j

RECURSIVE ReplaceAll(_, _, _)
\* strings.ReplaceAll for a non-empty `old`: non-overlapping matches, left to right
ReplaceAll(s, old, new) ==
    LET i == Index(s, old)
    IN IF i = 0 THEN s
       ELSE SubSeq(s, 1, i - 1) \o new \o ReplaceAll(From(s, i + Len(old)), old, new)

RECURSIVE Join(_, _)
\* strings.Join
Join(parts, sep) ==
    IF Len(parts) = 0 THEN ""
    ELSE IF Len(parts) = 1 THEN parts[1]
    ELSE Join(SubSeq(parts, 1, Len(parts) \div 2), sep) \o sep
         \o Join(SubSeq(parts, (Len(parts) \div 2) + 1, Len(parts)), sep)

Lower == "abcdefghijklmnopqrstuvwxyzé"
Upper == "ABCDEFGHIJKLMNOPQRSTUVWXYZÉ"

\* unicode.ToUpper of one rune
UpperRune(ch) ==
    IF Index(Lower, ch) = 0 THEN ch ELSE At(Upper, Index(Lower, ch))

\* strings.ToUpper
ToUpper(s) == Join([i \in 1..Len(s) |-> UpperRune(At(s, i))], "")

RECURSIVE Split(_, _)
\* strings.Split(s, sep) for a non-empty sep
Split(s, sep) ==
    LET i == Index(s, sep)
    IN IF i = 0 THEN <<s>>
       ELSE <<SubSeq(s, 1, i - 1)>> \o Split(From(s, i + Len(sep)), sep)

----------------------------------------------------------------------------
(* Escaping and folding *)

\* escapeValue with the backslash doubled last instead of first
escapeValue_BackslashLast(value) ==
    LET v1 == ReplaceAll(value, ",", "\\,")
        v2 == ReplaceAll(v1, ";", "\\;")
        v3 == ReplaceAll(v2, "\n", "\\n")
        v4 == ReplaceAll(v3, "\r", "\\r")
    IN ReplaceAll(v4, "\\", "\\\\")

escapeValue(value) ==
    LET v1 == ReplaceAll(value, "\\", "\\\\")
        v2 == ReplaceAll(v1, ",", "\\,")
        v3 == ReplaceAll(v2, ";", "\\;")
        v4 == ReplaceAll(v3, "\n", "\\n")
    IN ReplaceAll(v4, "\r", "\\r")

unescapeValue(value) ==
    LET v1 == ReplaceAll(value, "\\\\", "\\")
        v2 == ReplaceAll(v1, "\\,", ",")
        v3 == ReplaceAll(v2, "\\;", ";")
        v4 == ReplaceAll(v3, "\\n", "\n")
        v5 == ReplaceAll(v4, "\\r", "\r")
    IN ReplaceAll(v5, "\\t", "\t")

RECURSIVE foldRunes(_, _)
\* the loop of foldLine over the runes of `part`, whose first rune is at byte
\* offset i of the line (range's index): a rune at an offset i > 0 with
\* i%75 == 0 is written after "\r\n "
foldRunes(part, i) ==
    IF part = "" THEN ""
    ELSE IF Len(part) = 1
    THEN (IF i > 0 /\ i % FoldWidth = 0 THEN "\r\n " ELSE "") \o part
    ELSE LET half == SubSeq(part, 1, Len(part) \div 2)
         IN foldRunes(half, i)
            \o foldRunes(From(part, Len(half) + 1), i + ByteLen(half))

foldLine(line) ==
    IF ByteLen(line) <= FoldWidth THEN line ELSE foldRunes(line, 0)

\* formatTypeParameter(types...): the non-empty tokens, comma-joined
formatTypeParameter(types) ==
    LET validTypes == SelectSeq(types, LAMBDA t : t # "")
    IN IF Len(validTypes) = 0 THEN "" ELSE ";TYPE=" \o Join(validTypes, ",")

----------------------------------------------------------------------------
(* Values *)

\* Version30, Version40
Version30 == "3.0"
Version40 == "4.0"

\* the nil error, an error made by fmt.Errorf(msg), and fmt.Errorf(prefix + "%w", err):
\* an error is the list of its message layers, outermost first
Nil == <<>>
NewError(msg) == <<msg>>
Wrap(prefix, err) == <<prefix>> \o err
\* err.Error()
ErrorMessage(err) == Join(err, "")
\* errors.Unwrap
Unwrap(err) == Tail(err)

\* a nil *time.Time, and a date (time.Time holding a calendar date)
NoDate == [set |-> FALSE, year |-> 0, month |-> 0, day |-> 0]
Date(y, m, d) == [set |-> TRUE, year |-> y, month |-> m, day |-> d]

Digits == "0123456789"

RECURSIVE Pad(_, _)
\* n in decimal, zero-padded to `width` digits
Pad(n, width) ==
    IF width = 0 THEN ""
    ELSE Pad(n \div 10, width - 1) \o At(Digits, (n % 10) + 1)

\* t.Format("2006-01-02")
FormatDate(t) == Pad(t.year, 4) \o "-" \o Pad(t.month, 2) \o "-" \o Pad(t.day, 2)

\* Name{}, Organization{} and the entry structs
EmptyName == [Last |-> "", First |-> "", Middle |-> "", Prefix |-> "", Suffix |-> ""]
EmptyOrganization == [Name |-> "", Department |-> "", Title |-> "", Role |-> ""]
Email(address, type, preferred) ==
    [Address |-> address, Type |-> type, Preferred |-> preferred]
Phone(number, type, preferred) ==
    [Number |-> number, Type |-> type, Preferred |-> preferred]
URL(address, type, preferred) ==
    [Address |-> address, Type |-> type, Preferred |-> preferred]
Address(street, extended, city, state, postalCode, country, type, preferred) ==
    [Street |-> street, Extended |-> extended, City |-> city, State |-> state,
     PostalCode |-> postalCode, Country |-> country, Type |-> type,
     Preferred |-> preferred]

----------------------------------------------------------------------------
(* The heap: backing arrays and maps *)

\* a slice header: backing array (0: none, capacity 0) and length
NilSlice == [arr |-> 0, len |-> 0]

\* cap(s)
Cap(h, s) == IF s.arr = 0 THEN 0 ELSE Len(h[s.arr])

\* the elements s[0:len(s)]
Elems(h, s) == IF s.arr = 0 THEN <<>> ELSE SubSeq(h[s.arr], 1, s.len)

\* a fresh address
Alloc(h) == CHOOSE id \in 1..(Cardinality(DOMAIN h) + 1) : id \notin DOMAIN h

\* the heap with object `id` set to `obj`
Store(h, id, obj) == [i \in (DOMAIN h) \cup {id} |-> IF i = id THEN obj ELSE h[i]]

\* the capacity append gives a slice that has to grow (runtime growslice, small slices)
GrowCap(oldCap, needed) == IF needed > 2 * oldCap THEN needed ELSE 2 * oldCap

\* append(s, xs...): in place when the capacity suffices, else into a new array
\* that holds a copy; zero is the element type's zero value
append(h, s, xs, zero) ==
    LET needed == s.len + Len(xs)
        place(a) == [i \in 1..Len(a) |->
                        IF i > s.len /\ i <= needed THEN xs[i - s.len] ELSE a[i]]
    IN IF Len(xs) = 0 THEN [heap |-> h, slice |-> s]
       ELSE IF needed <= Cap(h, s)
       THEN [heap |-> Store(h, s.arr, place(h[s.arr])),
             slice |-> [arr |-> s.arr, len |-> needed]]
       ELSE LET id == Alloc(h)
                old == Elems(h, s)
                new == [i \in 1..GrowCap(Cap(h, s), needed) |->
                           IF i <= s.len THEN old[i] ELSE zero]
            IN [heap |-> Store(h, id, place(new)),
                slice |-> [arr |-> id, len |-> needed]]

\* make([]T, n) followed by copy(dst, src) with len(src) = n
MakeCopy(h, src) ==
    IF Len(src) = 0 THEN [heap |-> h, slice |-> NilSlice]
    ELSE LET id == Alloc(h)
         IN [heap |-> Store(h, id, src), slice |-> [arr |-> id, len |-> Len(src)]]

\* a map[string]string object
EmptyMap == [k \in {} |-> ""]
MapSet(m, k, val) == [x \in (DOMAIN m) \cup {k} |-> IF x = k THEN val ELSE m[x]]
\* m[k] of Go: the zero value for a missing key
MapGet(m, k) == IF k \in DOMAIN m THEN m[k] ELSE ""

----------------------------------------------------------------------------
(* The card: construction, setters and adders.  An operation that touches  *)
(* the heap takes it and returns [heap, card].                             *)

ZeroEmail == Email("", "", FALSE)
ZeroPhone == Phone("", "", FALSE)
ZeroURL == URL("", "", FALSE)
ZeroAddress == Address("", "", "", "", "", "", "", FALSE)

\* New(): make([]T, 0) slices have no elements to share; the map is a new object
New(h) ==
    LET id == Alloc(h)
    IN [heap |-> Store(h, id, EmptyMap),
        card |-> [version |-> Version30, name |-> EmptyName,
                  emails |-> NilSlice, phones |-> NilSlice,
                  addresses |-> NilSlice, organization |-> EmptyOrganization,
                  urls |-> NilSlice, photo |-> "", note |-> "",
                  birthday |-> NoDate, anniversary |-> NoDate,
                  customProps |-> id]]

\* NewWithVersion: New() with the version set
NewWithVersion(h, version) ==
    [heap |-> New(h).heap, card |-> [New(h).card EXCEPT !.version = version]]

SetVersion(card, version) == [card EXCEPT !.version = version]

\* AddName that starts a new name
AddName_WholeName(card, first, last) ==
    [card EXCEPT !.name = [EmptyName EXCEPT !.First = first, !.Last = last]]

AddName(card, first, last) ==
    [card EXCEPT !.name.First = first, !.name.Last = last]
AddMiddleName(card, middle) == [card EXCEPT !.name.Middle = middle]
AddPrefix(card, prefix) == [card EXCEPT !.name.Prefix = prefix]
AddSuffix(card, suffix) == [card EXCEPT !.name.Suffix = suffix]
SetName(card, name) == [card EXCEPT !.name = name]

\* AddEmails that leaves out the entries the card already holds
AddEmails_SkipPresent(h, card, emails) ==
    LET old == Elems(h, card.emails)
        fresh == SelectSeq(emails, LAMBDA e : \A i \in 1..Len(old) : old[i] # e)
        r == append(h, card.emails, fresh, ZeroEmail)
    IN [heap |-> r.heap, card |-> [card EXCEPT !.emails = r.slice]]

\* AddEmails, and the append of AddEmail / AddEmailWithPreference
AddEmails(h, card, emails) ==
    LET r == append(h, card.emails, emails, ZeroEmail)
    IN [heap |-> r.heap, card |-> [card EXCEPT !.emails = r.slice]]
\* AddEmail(address) and AddEmail(address, emailType): types is <<>> or <<emailType>>
AddEmail(h, card, address, types) ==
    AddEmails(h, card,
        <<Email(address, IF Len(types) > 0 THEN types[1] ELSE "INTERNET", FALSE)>>)
AddEmailWithPreference(h, card, address, emailType, preferred) ==
    AddEmails(h, card, <<Email(address, emailType, preferred)>>)

AddPhones(h, card, phones) ==
    LET r == append(h, card.phones, phones, ZeroPhone)
    IN [heap |-> r.heap, card |-> [card EXCEPT !.phones = r.slice]]
AddPhone(h, card, number, types) ==
    AddPhones(h, card,
        <<Phone(number, IF Len(types) > 0 THEN types[1] ELSE "VOICE", FALSE)>>)
AddPhoneWithPreference(h, card, number, phoneType, preferred) ==
    AddPhones(h, card, <<Phone(number, phoneType, preferred)>>)

AddAddresses(h, card, addresses) ==
    LET r == append(h, card.addresses, addresses, ZeroAddress)
    IN [heap |-> r.heap, card |-> [card EXCEPT !.addresses = r.slice]]
AddAddress(h, card, street, city, state, postalCode, country, types) ==
    AddAddresses(h, card,
        <<Address(street, "", city, state, postalCode, country,
                  IF Len(types) > 0 THEN types[1] ELSE "", FALSE)>>)
AddAddressExtended(h, card, street, extended, city, state, postalCode, country, types) ==
    AddAddresses(h, card,
        <<Address(street, extended, city, state, postalCode, country,
                  IF Len(types) > 0 THEN types[1] ELSE "", FALSE)>>)
AddAddressWithPreference(h, card, street, city, state, postalCode, country, addressType, preferred) ==
    AddAddresses(h, card,
        <<Address(street, "", city, state, postalCode, country, addressType, preferred)>>)

AddOrganization(card, name) == [card EXCEPT !.organization.Name = name]
AddDepartment(card, department) == [card EXCEPT !.organization.Department = department]
AddTitle(card, title) == [card EXCEPT !.organization.Title = title]
AddRole(card, role) == [card EXCEPT !.organization.Role = role]
SetOrganization(card, org) == [card EXCEPT !.organization = org]

AddURLs(h, card, urls) ==
    LET r == append(h, card.urls, urls, ZeroURL)
    IN [heap |-> r.heap, card |-> [card EXCEPT !.urls = r.slice]]
AddURL(h, card, address, types) ==
    AddURLs(h, card, <<URL(address, IF Len(types) > 0 THEN types[1] ELSE "", FALSE)>>)
AddURLWithPreference(h, card, address, urlType, preferred) ==
    AddURLs(h, card, <<URL(address, urlType, preferred)>>)

AddPhoto(card, photo) == [card EXCEPT !.photo = photo]
AddNote(card, note) == [card EXCEPT !.note = note]
AddBirthday(card, birthday) == [card EXCEPT !.birthday = birthday]
AddAnniversary(card, anniversary) == [card EXCEPT !.anniversary = anniversary]

\* the value of a decimal digit, -1 for any other character
DigitValue(ch) == Index(Digits, ch) - 1

\* the number two or four decimal digits spell
Number(s) ==
    LET d(i) == DigitValue(At(s, i))
    IN IF Len(s) = 2 THEN 10 * d(1) + d(2)
       ELSE 1000 * d(1) + 100 * d(2) + 10 * d(3) + d(4)

\* the days of a month of the proleptic Gregorian calendar
DaysIn(month, year) ==
    IF month = 2
    THEN IF year % 4 = 0 /\ (year % 100 # 0 \/ year % 400 = 0) THEN 29 ELSE 28
    ELSE IF month \in {4, 6, 9, 11} THEN 30 ELSE 31

\* time.Parse("2006-01-02", s): four digits, "-", two digits, "-", two digits
\* and nothing else, naming a month 1..12 and a day of that month; the text
\* of the error stops after the quoted input
ParseDate(s) ==
    LET shaped == /\ Len(s) = 10
                  /\ At(s, 5) = "-" /\ At(s, 8) = "-"
                  /\ \A i \in {1, 2, 3, 4, 6, 7, 9, 10} : DigitValue(At(s, i)) >= 0
        year == Number(SubSeq(s, 1, 4))
        month == Number(SubSeq(s, 6, 7))
        day == Number(SubSeq(s, 9, 10))
    IN IF shaped /\ month \in 1..12 /\ day \in 1..DaysIn(month, year)
       THEN [date |-> Date(year, month, day), err |-> Nil]
       ELSE [date |-> NoDate, err |-> NewError("parsing time \"" \o s \o "\"")]

\* AddBirthdayFromString that stores whatever the parse left
AddBirthdayFromString_StoreFirst(card, dateStr) ==
    LET parsed == ParseDate(dateStr)
    IN IF parsed.err # Nil
       THEN [card |-> [card EXCEPT !.birthday = parsed.date],
             err |-> Wrap("invalid date format: ", parsed.err)]
       ELSE [card |-> [card EXCEPT !.birthday = parsed.date], err |-> Nil]

AddBirthdayFromString(card, dateStr) ==
    LET parsed == ParseDate(dateStr)
    IN IF parsed.err # Nil
       THEN [card |-> card, err |-> Wrap("invalid date format: ", parsed.err)]
       ELSE [card |-> [card EXCEPT !.birthday = parsed.date], err |-> Nil]

AddAnniversaryFromString(card, dateStr) ==
    LET parsed == ParseDate(dateStr)
    IN IF parsed.err # Nil
       THEN [card |-> card, err |-> Wrap("invalid date format: ", parsed.err)]
       ELSE [card |-> [card EXCEPT !.anniversary = parsed.date], err |-> Nil]

\* the byte of an ASCII letter, digit or space
ByteOf(ch) ==
    IF Index("ABCDEFGHIJKLMNOPQRSTUVWXYZ", ch) > 0
    THEN 64 + Index("ABCDEFGHIJKLMNOPQRSTUVWXYZ", ch)
    ELSE IF Index("abcdefghijklmnopqrstuvwxyz", ch) > 0
    THEN 96 + Index("abcdefghijklmnopqrstuvwxyz", ch)
    ELSE IF DigitValue(ch) >= 0 THEN 48 + DigitValue(ch)
    ELSE 32
Base64Alphabet == "ABCDEFGHIJKLMNOPQRSTUVWXYZabcdefghijklmnopqrstuvwxyz0123456789+/"
Sextet(n) == At(Base64Alphabet, n + 1)

RECURSIVE EncodeToString(_)
\* base64.StdEncoding.EncodeToString on such data: three bytes make four
\* characters, the last group is padded with "="
EncodeToString(data) ==
    LET b(i) == ByteOf(At(data, i))
    IN IF Len(data) = 0 THEN ""
       ELSE IF Len(data) = 1
       THEN Sextet(b(1) \div 4) \o Sextet((b(1) % 4) * 16) \o "=="
       ELSE IF Len(data) = 2
       THEN Sextet(b(1) \div 4) \o Sextet((b(1) % 4) * 16 + b(2) \div 16)
            \o Sextet((b(2) % 16) * 4) \o "="
       ELSE Sextet(b(1) \div 4) \o Sextet((b(1) % 4) * 16 + b(2) \div 16)
            \o Sextet((b(2) % 16) * 4 + b(3) \div 64) \o Sextet(b(3) % 64)
            \o EncodeToString(From(data, 4))

\* what is at a path: no file, or a file with its content
NoFile == [exists |-> FALSE, content |-> ""]
File(content) == [exists |-> TRUE, content |-> content]

\* os.ReadFile on a path: the content, or an error when it cannot be read
ReadFile(f) ==
    IF f.exists THEN [data |-> f.content, err |-> Nil]
    ELSE [data |-> "", err |-> NewError("open: no such file or directory")]

AddPhotoFromFile(card, f) ==
    LET read == ReadFile(f)
    IN IF read.err # Nil THEN [card |-> card, err |-> read.err]
       ELSE [card |-> [card EXCEPT !.photo = "data:image/jpeg;base64,"
                                             \o EncodeToString(read.data)],
             err |-> Nil]

\* AddCustomProperty: v.customProps[name] = value, in the card's map object
AddCustomProperty(h, card, name, value) ==
    [heap |-> Store(h, card.customProps, MapSet(h[card.customProps], name, value)),
     card |-> card]

\* AddCustomProperties: every entry of props stored into the card's map
AddCustomProperties(h, card, props) ==
    [heap |-> Store(h, card.customProps,
                    [k \in (DOMAIN h[card.customProps]) \cup (DOMAIN props) |->
                        IF k \in DOMAIN props THEN props[k]
                        ELSE h[card.customProps][k]]),
     card |-> card]

\* the steps of AddContact after the name, each on the heap and card r that
\* the step before left
ContactEmails(r, contact) ==
    IF Len(contact.Emails) > 0 THEN AddEmails(r.heap, r.card, contact.Emails) ELSE r
ContactPhones(r, contact) ==
    IF Len(contact.Phones) > 0 THEN AddPhones(r.heap, r.card, contact.Phones) ELSE r
ContactAddresses(r, contact) ==
    IF Len(contact.Addresses) > 0
    THEN AddAddresses(r.heap, r.card, contact.Addresses)
    ELSE r
ContactOrganization(r, contact) ==
    IF contact.Organization.Name # ""
    THEN [r EXCEPT !.card = SetOrganization(@, contact.Organization)]
    ELSE r
ContactURLs(r, contact) ==
    IF Len(contact.URLs) > 0 THEN AddURLs(r.heap, r.card, contact.URLs) ELSE r
ContactPhoto(r, contact) ==
    IF contact.Photo # "" THEN [r EXCEPT !.card = AddPhoto(@, contact.Photo)] ELSE r
ContactNote(r, contact) ==
    IF contact.Note # "" THEN [r EXCEPT !.card = AddNote(@, contact.Note)] ELSE r

\* the two date steps: failed collects the errors the calls hand back, which
\* AddContact drops
ContactBirthday(r, contact) ==
    LET born == IF contact.Birthday # <<>>
                THEN AddBirthdayFromString(r.card, contact.Birthday[1])
                ELSE [card |-> r.card, err |-> Nil]
    IN [r |-> [r EXCEPT !.card = born.card], failed |-> <<born.err>>]
ContactAnniversary(d, contact) ==
    LET wed == IF contact.Anniversary # <<>>
               THEN AddAnniversaryFromString(d.r.card, contact.Anniversary[1])
               ELSE [card |-> d.r.card, err |-> Nil]
    IN [r |-> [d.r EXCEPT !.card = wed.card], failed |-> Append(d.failed, wed.err)]
ContactCustomProps(d, contact) ==
    IF contact.CustomProps # EmptyMap
    THEN [d EXCEPT !.r = AddCustomProperties(@.heap, @.card, contact.CustomProps)]
    ELSE d

\* the steps of AddContact after the name, in the order of the code
ContactRest(r, contact) ==
    ContactCustomProps(
        ContactAnniversary(
            ContactBirthday(
                ContactNote(
                    ContactPhoto(
                        ContactURLs(
                            ContactOrganization(
                                ContactAddresses(
                                    ContactPhones(
                                        ContactEmails(r, contact),
                                        contact),
                                    contact),
                                contact),
                            contact),
                        contact),
                    contact),
                contact),
            contact),
        contact)

\* AddContact that keeps the card's name when the contact has none
AddContact_KeepName(h, card, contact) ==
    ContactRest([heap |-> h,
                 card |-> IF contact.Name = EmptyName THEN card
                          ELSE SetName(card, contact.Name)], contact)

\* AddContact: r is the heap and card it leaves, failed the errors of its two
\* date calls
AddContact(h, card, contact) ==
    ContactRest([heap |-> h, card |-> SetName(card, contact.Name)], contact)

----------------------------------------------------------------------------
(* Validation and the encoder *)

\* Validate with the name test requiring both parts
Validate_BothNames(h, card) ==
    IF card.name.First = "" \/ card.name.Last = ""
    THEN NewError("vcard must have at least first name or last name")
    ELSE IF \E i \in 1..card.emails.len : Elems(h, card.emails)[i].Address = ""
    THEN NewError("email address cannot be empty")
    ELSE IF \E i \in 1..card.phones.len : Elems(h, card.phones)[i].Number = ""
    THEN NewError("phone number cannot be empty")
    ELSE Nil

Validate(h, card) ==
    IF card.name.First = "" /\ card.name.Last = ""
    THEN NewError("vcard must have at least first name or last name")
    ELSE IF \E i \in 1..card.emails.len : Elems(h, card.emails)[i].Address = ""
    THEN NewError("email address cannot be empty")
    ELSE IF \E i \in 1..card.phones.len : Elems(h, card.phones)[i].Number = ""
    THEN NewError("phone number cannot be empty")
    ELSE Nil

IsValid(h, card) == Validate(h, card) = Nil

\* Name.FormattedName that finds no part to join
FormattedName_NoParts(n) == ""

\* Name.FormattedName
FormattedName(n) ==
    Join(SelectSeq(<<n.Prefix, n.First, n.Middle, n.Last, n.Suffix>>,
                   LAMBDA part : part # ""), " ")

\* Name.StructuredName
StructuredName(n) ==
    Join(<<escapeValue(n.Last), escapeValue(n.First), escapeValue(n.Middle),
           escapeValue(n.Prefix), escapeValue(n.Suffix)>>, ";")

\* Address.StructuredAddress
StructuredAddress(a) ==
    Join(<<"", escapeValue(a.Extended), escapeValue(a.Street), escapeValue(a.City),
           escapeValue(a.State), escapeValue(a.PostalCode), escapeValue(a.Country)>>,
         ";")

\* Address.FormattedAddress
FormattedAddress(a) ==
    LET cityState == SelectSeq(<<a.City, a.State>>, LAMBDA x : x # "")
        parts == (IF a.Street # "" THEN <<a.Street>> ELSE <<>>)
                 \o (IF a.Extended # "" THEN <<a.Extended>> ELSE <<>>)
                 \o (IF Len(cityState) > 0 THEN <<Join(cityState, ", ")>> ELSE <<>>)
                 \o (IF a.PostalCode # "" THEN <<a.PostalCode>> ELSE <<>>)
                 \o (IF a.Country # "" THEN <<a.Country>> ELSE <<>>)
    IN Join(parts, "\n")

\* what writeNameProperties writes
writeNameProperties(card) ==
    LET fn0 == FormattedName(card.name)
        formattedName ==
            IF fn0 # "" THEN fn0
            ELSE IF card.name.Last # "" /\ card.name.First # ""
                 THEN card.name.Last \o ", " \o card.name.First
            ELSE IF card.name.First # "" THEN card.name.First
            ELSE IF card.name.Last # "" THEN card.name.Last
            ELSE ""
    IN "N:" \o StructuredName(card.name) \o "\n"
       \o (IF formattedName # "" THEN "FN:" \o escapeValue(formattedName) \o "\n"
           ELSE "")

\* the text a loop writes: one piece per element, in order
Each(pieces) == Join(pieces, "")

\* ";PREF=1" when preferred
Pref(e) == IF e.Preferred THEN ";PREF=1" ELSE ""

\* writeEmailProperties without the INTERNET default
writeEmailProperties_NoDefault(h, card) ==
    LET line(email) ==
            "EMAIL" \o formatTypeParameter(<<email.Type>>)
            \o Pref(email) \o ":" \o escapeValue(email.Address)
        piece(email) == foldLine(line(email)) \o "\n"
    IN Each([i \in 1..Len(Elems(h, card.emails)) |-> piece(Elems(h, card.emails)[i])])

writeEmailProperties(h, card) ==
    LET line(email) ==
            "EMAIL"
            \o (IF email.Type # "" THEN formatTypeParameter(<<email.Type>>)
                ELSE formatTypeParameter(<<"INTERNET">>))
            \o Pref(email) \o ":" \o escapeValue(email.Address)
        piece(email) == foldLine(line(email)) \o "\n"
    IN Each([i \in 1..Len(Elems(h, card.emails)) |-> piece(Elems(h, card.emails)[i])])

writePhoneProperties(h, card) ==
    LET line(phone) ==
            "TEL"
            \o (IF phone.Type # "" THEN formatTypeParameter(<<phone.Type>>)
                ELSE formatTypeParameter(<<"VOICE">>))
            \o Pref(phone) \o ":" \o escapeValue(phone.Number)
        piece(phone) == foldLine(line(phone)) \o "\n"
    IN Each([i \in 1..Len(Elems(h, card.phones)) |-> piece(Elems(h, card.phones)[i])])

\* writeAddressProperties that writes the LABEL line whenever any field,
\* the extended one included, is not empty
writeAddressProperties_LabelForExtended(h, card) ==
    LET typeParam(addr) ==
            (IF addr.Type # "" THEN formatTypeParameter(<<addr.Type>>) ELSE "")
            \o Pref(addr)
        line(addr) == "ADR" \o typeParam(addr) \o ":" \o StructuredAddress(addr)
        labelLine(addr) ==
            "LABEL" \o typeParam(addr) \o ":" \o escapeValue(FormattedAddress(addr))
        piece(addr) ==
            foldLine(line(addr)) \o "\n"
            \o (IF \/ addr.Street # "" \/ addr.City # "" \/ addr.State # ""
                   \/ addr.PostalCode # "" \/ addr.Country # "" \/ addr.Extended # ""
                THEN foldLine(labelLine(addr)) \o "\n"
                ELSE "")
    IN Each([i \in 1..Len(Elems(h, card.addresses)) |-> piece(Elems(h, card.addresses)[i])])

writeAddressProperties(h, card) ==
    LET typeParam(addr) ==
            (IF addr.Type # "" THEN formatTypeParameter(<<addr.Type>>) ELSE "")
            \o Pref(addr)
        line(addr) == "ADR" \o typeParam(addr) \o ":" \o StructuredAddress(addr)
        labelLine(addr) ==
            "LABEL" \o typeParam(addr) \o ":" \o escapeValue(FormattedAddress(addr))
        piece(addr) ==
            foldLine(line(addr)) \o "\n"
            \o (IF \/ addr.Street # "" \/ addr.City # "" \/ addr.State # ""
                   \/ addr.PostalCode # "" \/ addr.Country # ""
                THEN foldLine(labelLine(addr)) \o "\n"
                ELSE "")
    IN Each([i \in 1..Len(Elems(h, card.addresses)) |-> piece(Elems(h, card.addresses)[i])])

\* writeOrganizationProperties that writes ORG for a department without a name
writeOrganizationProperties_DepartmentAlone(card) ==
    LET org == card.organization
        orgParts == <<escapeValue(org.Name)>>
                    \o (IF org.Department # "" THEN <<escapeValue(org.Department)>>
                        ELSE <<>>)
    IN (IF org.Name # "" \/ org.Department # ""
        THEN foldLine("ORG:" \o Join(orgParts, ";")) \o "\n" ELSE "")
       \o (IF org.Title # "" THEN foldLine("TITLE:" \o escapeValue(org.Title)) \o "\n"
           ELSE "")
       \o (IF org.Role # "" THEN foldLine("ROLE:" \o escapeValue(org.Role)) \o "\n"
           ELSE "")

writeOrganizationProperties(card) ==
    LET org == card.organization
        orgParts == <<escapeValue(org.Name)>>
                    \o (IF org.Department # "" THEN <<escapeValue(org.Department)>>
                        ELSE <<>>)
    IN (IF org.Name # "" THEN foldLine("ORG:" \o Join(orgParts, ";")) \o "\n" ELSE "")
       \o (IF org.Title # "" THEN foldLine("TITLE:" \o escapeValue(org.Title)) \o "\n"
           ELSE "")
       \o (IF org.Role # "" THEN foldLine("ROLE:" \o escapeValue(org.Role)) \o "\n"
           ELSE "")

writeURLProperties(h, card) ==
    LET line(url) ==
            "URL"
            \o (IF url.Type # "" THEN formatTypeParameter(<<url.Type>>) ELSE "")
            \o Pref(url) \o ":" \o escapeValue(url.Address)
        piece(url) == foldLine(line(url)) \o "\n"
    IN Each([i \in 1..Len(Elems(h, card.urls)) |-> piece(Elems(h, card.urls)[i])])

\* writePhotoProperty that escapes the value
writePhotoProperty_Escaped(card) ==
    IF card.photo = "" THEN ""
    ELSE IF HasPrefix(card.photo, "http://") \/ HasPrefix(card.photo, "https://")
    THEN foldLine("PHOTO;VALUE=uri:" \o escapeValue(card.photo)) \o "\n"
    ELSE IF HasPrefix(card.photo, "data:")
    THEN foldLine("PHOTO;ENCODING=b:" \o escapeValue(card.photo)) \o "\n"
    ELSE foldLine("PHOTO;ENCODING=b;TYPE=JPEG:" \o escapeValue(card.photo)) \o "\n"

writePhotoProperty(card) ==
    IF card.photo = "" THEN ""
    ELSE IF HasPrefix(card.photo, "http://") \/ HasPrefix(card.photo, "https://")
    THEN foldLine("PHOTO;VALUE=uri:" \o card.photo) \o "\n"
    ELSE IF HasPrefix(card.photo, "data:")
    THEN foldLine("PHOTO;ENCODING=b:" \o card.photo) \o "\n"
    ELSE foldLine("PHOTO;ENCODING=b;TYPE=JPEG:" \o card.photo) \o "\n"

writeBirthdayProperty(card) ==
    IF ~card.birthday.set THEN ""
    ELSE "BDAY:" \o FormatDate(card.birthday) \o "\n"

\* writeAnniversaryProperty without the version test
writeAnniversaryProperty_AnyVersion(card) ==
    IF ~card.anniversary.set THEN ""
    ELSE "ANNIVERSARY:" \o FormatDate(card.anniversary) \o "\n"

writeAnniversaryProperty(card) ==
    IF ~card.anniversary.set THEN ""
    ELSE IF card.version = Version40
    THEN "ANNIVERSARY:" \o FormatDate(card.anniversary) \o "\n"
    ELSE ""

\* the orders in which `range` may visit the keys of a map
RangeOrders(m) ==
    {o \in [1..Cardinality(DOMAIN m) -> DOMAIN m] :
        \A i, j \in DOMAIN o : i # j => o[i] # o[j]}

\* writeCustomProperties that writes every entry of the map
writeCustomProperties_All(h, card, order) ==
    LET m == h[card.customProps]
        piece(name) == foldLine(ToUpper(name) \o ":" \o escapeValue(m[name])) \o "\n"
    IN Each([i \in 1..Len(order) |-> piece(order[i])])

\* writeCustomProperties that writes the key as it is stored
writeCustomProperties_KeyAsStored(h, card, order) ==
    LET m == h[card.customProps]
        piece(name) ==
            IF HasPrefix(ToUpper(name), "X-") /\ m[name] # ""
            THEN foldLine(name \o ":" \o escapeValue(m[name])) \o "\n"
            ELSE ""
    IN Each([i \in 1..Len(order) |-> piece(order[i])])

\* writeCustomProperties, visiting the map in the given order
writeCustomProperties(h, card, order) ==
    LET m == h[card.customProps]
        piece(name) ==
            IF HasPrefix(ToUpper(name), "X-") /\ m[name] # ""
            THEN foldLine(ToUpper(name) \o ":" \o escapeValue(m[name])) \o "\n"
            ELSE ""
    IN Each([i \in 1..Len(order) |-> piece(order[i])])

\* the text String() builds once the card has passed validation
encode(h, card, order) ==
    "BEGIN:VCARD\n"
    \o "VERSION:" \o card.version \o "\n"
    \o writeNameProperties(card)
    \o writeEmailProperties(h, card)
    \o writePhoneProperties(h, card)
    \o writeAddressProperties(h, card)
    \o writeOrganizationProperties(card)
    \o writeURLProperties(h, card)
    \o (IF card.photo # "" THEN writePhotoProperty(card) ELSE "")
    \o (IF card.note # "" THEN "NOTE:" \o escapeValue(card.note) \o "\n" ELSE "")
    \o (IF card.birthday.set THEN writeBirthdayProperty(card) ELSE "")
    \o (IF card.anniversary.set THEN writeAnniversaryProperty(card) ELSE "")
    \o writeCustomProperties(h, card, order)
    \o "END:VCARD\n"

\* String that checks the name only after it has started writing
String_PartialText(h, card, order) ==
    IF Validate(h, card) # Nil
    THEN [text |-> "BEGIN:VCARD\n",
          err |-> Wrap("vcard validation failed: ", Validate(h, card))]
    ELSE [text |-> encode(h, card, order), err |-> Nil]

\* String that reports a validation failure without its cause
String_NoCause(h, card, order) ==
    IF Validate(h, card) # Nil
    THEN [text |-> "", err |-> NewError("vcard validation failed")]
    ELSE [text |-> encode(h, card, order), err |-> Nil]

\* String(): (text, error); order is the order in which the map is ranged over
String(h, card, order) ==
    IF Validate(h, card) # Nil
    THEN [text |-> "", err |-> Wrap("vcard validation failed: ", Validate(h, card))]
    ELSE [text |-> encode(h, card, order), err |-> Nil]

\* what Bytes() makes of the (content, err) String() returned
BytesOf(s) ==
    IF s.err # Nil THEN [nil |-> TRUE, bytes |-> "", err |-> s.err]
    ELSE [nil |-> FALSE, bytes |-> s.text, err |-> Nil]

\* Bytes(): (nil, err) when String() fails, else []byte(content), the bytes
\* the text consists of
Bytes(h, card, order) == BytesOf(String(h, card, order))

\* the ways os.WriteFile can end: the data written, the open refused, or the
\* file opened (created or truncated) and the write failing
WriteOutcomes == {"written", "refused", "cut"}

\* os.WriteFile(filename, data, 0644) on what is at the path
WriteFile(f, data, outcome) ==
    IF outcome = "written" THEN [file |-> File(data), err |-> Nil]
    ELSE IF outcome = "refused"
    THEN [file |-> f, err |-> NewError("open: permission denied")]
    ELSE [file |-> File(""), err |-> NewError("write: no space left on device")]

\* what SaveToFile does with the (content, err) String() returned
Save(s, f, outcome) ==
    IF s.err # Nil THEN [file |-> f, err |-> s.err]
    ELSE WriteFile(f, s.text, outcome)

\* SaveToFile that opens the file before it serializes
SaveToFile_OpenFirst(h, card, order, f, outcome) ==
    LET s == String(h, card, order)
    IN IF s.err # Nil THEN [file |-> File(""), err |-> s.err]
       ELSE WriteFile(f, s.text, outcome)

\* SaveToFile(filename): String() first, its error returned before any write
SaveToFile(h, card, order, f, outcome) == Save(String(h, card, order), f, outcome)

----------------------------------------------------------------------------
(* Reset and Clone *)

\* Reset that leaves the custom properties in the map
Reset_KeepProps(h, card) ==
    [heap |-> h,
     card |-> [card EXCEPT !.version = Version30, !.name = EmptyName,
                           !.emails.len = 0, !.phones.len = 0,
                           !.addresses.len = 0,
                           !.organization = EmptyOrganization,
                           !.urls.len = 0, !.photo = "", !.note = "",
                           !.birthday = NoDate, !.anniversary = NoDate]]

\* Reset(): the slices keep their backing arrays (s[:0]), the map is emptied in place
Reset(h, card) ==
    [heap |-> Store(h, card.customProps, EmptyMap),
     card |-> [card EXCEPT !.version = Version30, !.name = EmptyName,
                           !.emails.len = 0, !.phones.len = 0,
                           !.addresses.len = 0,
                           !.organization = EmptyOrganization,
                           !.urls.len = 0, !.photo = "", !.note = "",
                           !.birthday = NoDate, !.anniversary = NoDate]]

\* Clone as a copy of the struct: the slices and the map are shared
Clone_Shallow(h, card) == [heap |-> h, card |-> card]

\* Clone(): new arrays (make + copy), copies of the dates, a new map
Clone(h, card) ==
    LET e == MakeCopy(h, Elems(h, card.emails))
        p == MakeCopy(e.heap, Elems(h, card.phones))
        a == MakeCopy(p.heap, Elems(h, card.addresses))
        u == MakeCopy(a.heap, Elems(h, card.urls))
        id == Alloc(u.heap)
    IN [heap |-> Store(u.heap, id, h[card.customProps]),
        card |-> [version |-> card.version, name |-> card.name,
                  emails |-> e.slice, phones |-> p.slice, addresses |-> a.slice,
                  organization |-> card.organization, urls |-> u.slice,
                  photo |-> card.photo, note |-> card.note,
                  birthday |-> card.birthday, anniversary |-> card.anniversary,
                  customProps |-> id]]

----------------------------------------------------------------------------
(* Read accessors *)

GetVersion(card) == card.version
GetFormattedName(card) == FormattedName(card.name)
GetName(card) == card.name
GetOrganization(card) == card.organization
GetPhoto(card) == card.photo
GetNote(card) == card.note
GetBirthday(card) == card.birthday
GetAnniversary(card) == card.anniversary
\* GetCustomProperties(): a copy of the map
GetCustomProperties(h, card) == h[card.customProps]
GetCustomProperty(h, card, name) == MapGet(h[card.customProps], name)
\* GetEmails(), GetPhones(), GetAddresses(), GetURLs(): the card's own slice
GetEmails(card) == card.emails
GetPhones(card) == card.phones
GetAddresses(card) == card.addresses
GetURLs(card) == card.urls
\* GetEmail that returns the entry added last
GetEmail_Last(h, card) ==
    IF card.emails.len > 0 THEN Elems(h, card.emails)[card.emails.len].Address ELSE ""
\* the first entry's value, "" when there is none
GetEmail(h, card) ==
    IF card.emails.len > 0 THEN Elems(h, card.emails)[1].Address ELSE ""
GetPhone(h, card) ==
    IF card.phones.len > 0 THEN Elems(h, card.phones)[1].Number ELSE ""
GetURL(h, card) ==
    IF card.urls.len > 0 THEN Elems(h, card.urls)[1].Address ELSE ""
\* GetAddress(): the first address as a one-element list, <<>> for nil
GetAddress(h, card) ==
    IF card.addresses.len > 0 THEN <<Elems(h, card.addresses)[1]>> ELSE <<>>

----------------------------------------------------------------------------
(* The calls a program makes on a card and on its clone *)

\* c before v.Clone() has been called
NoCard == [customProps |-> 0]

Card(t) == IF t = "v" THEN v ELSE c

\* the cards that exist
Targets == IF c = NoCard THEN {"v"} ELSE {"v", "c"}

\* the heap objects a card refers to
Refs(card) ==
    IF card = NoCard THEN {}
    ELSE {card.emails.arr, card.phones.arr, card.addresses.arr, card.urls.arr,
          card.customProps} \ {0}

\* the heap without the objects no card refers to any more
Collect(h, cards) ==
    [id \in {i \in DOMAIN h : \E k \in 1..Len(cards) : i \in Refs(cards[k])} |-> h[id]]

\* a card with its slices and its map read through the heap
View(h, card) ==
    [version |-> card.version, name |-> card.name,
     emails |-> Elems(h, card.emails), phones |-> Elems(h, card.phones),
     addresses |-> Elems(h, card.addresses), organization |-> card.organization,
     urls |-> Elems(h, card.urls), photo |-> card.photo, note |-> card.note,
     birthday |-> card.birthday, anniversary |-> card.anniversary,
     customProps |-> h[card.customProps]]

\* what a call returned: its kind, the card it was made on, and (text, error)
Ret(op, t, text, err) == [op |-> op, on |-> t, text |-> text, err |-> err]

\* the number of calls a run makes
StepBound == IF pc = "get" THEN MaxGetSteps ELSE MaxSteps

\* nothing got from a Get...s() call yet
NothingHeld ==
    [emails |-> NilSlice, phones |-> NilSlice, addresses |-> NilSlice,
     urls |-> NilSlice, customProps |-> 0,
     then |-> [emails |-> <<>>, phones |-> <<>>, addresses |-> <<>>, urls |-> <<>>,
               customProps |-> EmptyMap]]

\* a call on card t that leaves it as r.card in heap r.heap
Call(t, r, result) ==
    LET newV == IF t = "v" THEN r.card ELSE v
        newC == IF t = "c" THEN r.card ELSE c
    IN /\ steps < StepBound
       /\ v' = newV
       /\ c' = newC
       /\ heap' = Collect(r.heap, <<newV, newC, held>>)
       /\ ret' = result
       /\ steps' = steps + 1
       /\ UNCHANGED <<fnVars, held, file>>

\* a setter or adder: returns its receiver
Set(t, r) == Call(t, r, Ret("set", t, "", Nil))
\* a setter that does not touch the heap
SetField(t, card) == Set(t, [heap |-> heap, card |-> card])

(* Arguments the calls are made with *)

\* a value longer than a folded line
LongLen == 80
Long == Repeat("x", LongLen)

NameArgs == {<<"John", "Doe">>, <<"John", "">>, <<"", "Doe">>}
FullName == [Last |-> "Doe", First |-> "Jo;hn", Middle |-> "Q\\n", Prefix |-> "Dr.",
             Suffix |-> "Jr."]
EmailArgs == {<<"", <<>>>>, <<"not an email", <<"WORK">>>>, <<Long \o "@x.org", <<>>>>}
EmailBatch == <<Email("j@x.org", "HOME", FALSE), Email("j@x.org", "HOME", FALSE),
                Email("k@x.org", "", TRUE)>>
EmailPref == <<"p@x.org", "WORK", TRUE>>
PhoneArgs == {<<"+123", <<>>>>, <<"", <<"FAX">>>>}
PhoneBatch == <<Phone("+456", "WORK", FALSE), Phone("+123", "", FALSE)>>
PhonePref == <<"+789", "MOBILE", TRUE>>
ExtendedOnly == "Apt 4"
Street == <<"1 Main St", "Springfield", "IL", "62701", "USA">>
NoStreet == <<"", "", "", "", "">>
AddressBatch == <<Address("2 Side St", "", "Town", "", "", "", "HOME", FALSE),
                  Address("", "", "", "", "", "", "", FALSE)>>
URLArgs == {<<"https://x.org", <<>>>>, <<"", <<"WORK">>>>}
URLBatch == <<URL("not a url", "SOCIAL", FALSE), URL("https://x.org", "", FALSE)>>
URLPref == <<"https://y.org", "HOME", TRUE>>
FullOrganization == [Name |-> "Acme, Inc.", Department |-> "R&D", Title |-> "CTO",
                     Role |-> "Lead"]
Photos == {"https://x.org/p.jpg", "data:image/png;base64,QUJD", "QUJD\nEND:VCARD"}
Notes == {"a, b; c", Long}
Birthdays == {Date(1990, 1, 15)}
Anniversaries == {Date(2015, 6, 20)}
CustomArgs == {<<"x-b", "2">>, <<"NOTE", "3">>}
CustomBatch == [k \in {"X-A", "X-C"} |-> IF k = "X-A" THEN "9" ELSE ""]

(* The calls *)

DoSetVersion == \E t \in Targets, version \in {Version30, Version40} :
    SetField(t, SetVersion(Card(t), version))

DoAddName == \E t \in Targets, a \in NameArgs :
    SetField(t, AddName(Card(t), a[1], a[2]))
DoAddMiddleName == \E t \in Targets : SetField(t, AddMiddleName(Card(t), "Q"))
DoAddPrefix == \E t \in Targets : SetField(t, AddPrefix(Card(t), "Dr."))
DoAddSuffix == \E t \in Targets : SetField(t, AddSuffix(Card(t), "Jr."))
DoSetName == \E t \in Targets : SetField(t, SetName(Card(t), FullName))

DoAddEmail == \E t \in Targets, a \in EmailArgs :
    Set(t, AddEmail(heap, Card(t), a[1], a[2]))
DoAddEmailWithPreference == \E t \in Targets :
    Set(t, AddEmailWithPreference(heap, Card(t), EmailPref[1], EmailPref[2],
                                  EmailPref[3]))
DoAddEmails == \E t \in Targets : Set(t, AddEmails(heap, Card(t), EmailBatch))

DoAddPhone == \E t \in Targets, a \in PhoneArgs :
    Set(t, AddPhone(heap, Card(t), a[1], a[2]))
DoAddPhoneWithPreference == \E t \in Targets :
    Set(t, AddPhoneWithPreference(heap, Card(t), PhonePref[1], PhonePref[2],
                                  PhonePref[3]))
DoAddPhones == \E t \in Targets : Set(t, AddPhones(heap, Card(t), PhoneBatch))

DoAddAddress == \E t \in Targets, a \in {Street, NoStreet} :
    Set(t, AddAddress(heap, Card(t), a[1], a[2], a[3], a[4], a[5], <<>>))
DoAddAddressExtended == \E t \in Targets :
    Set(t, AddAddressExtended(heap, Card(t), "", ExtendedOnly, "", "", "", "", <<"HOME">>))
DoAddAddressWithPreference == \E t \in Targets :
    Set(t, AddAddressWithPreference(heap, Card(t), Street[1], Street[2], Street[3],
                                    Street[4], Street[5], "WORK", TRUE))
DoAddAddresses == \E t \in Targets : Set(t, AddAddresses(heap, Card(t), AddressBatch))

DoAddOrganization == \E t \in Targets : SetField(t, AddOrganization(Card(t), "Acme"))
DoAddDepartment == \E t \in Targets : SetField(t, AddDepartment(Card(t), "R&D"))
DoAddTitle == \E t \in Targets : SetField(t, AddTitle(Card(t), "CTO"))
DoAddRole == \E t \in Targets : SetField(t, AddRole(Card(t), "Lead"))
DoSetOrganization == \E t \in Targets :
    SetField(t, SetOrganization(Card(t), FullOrganization))

DoAddURL == \E t \in Targets, a \in URLArgs :
    Set(t, AddURL(heap, Card(t), a[1], a[2]))
DoAddURLWithPreference == \E t \in Targets :
    Set(t, AddURLWithPreference(heap, Card(t), URLPref[1], URLPref[2], URLPref[3]))
DoAddURLs == \E t \in Targets : Set(t, AddURLs(heap, Card(t), URLBatch))

DoAddPhoto == \E t \in Targets, photo \in Photos : SetField(t, AddPhoto(Card(t), photo))
DoAddNote == \E t \in Targets, note \in Notes : SetField(t, AddNote(Card(t), note))
DoAddBirthday == \E t \in Targets, d \in Birthdays :
    SetField(t, AddBirthday(Card(t), d))
DoAddAnniversary == \E t \in Targets, d \in Anniversaries :
    SetField(t, AddAnniversary(Card(t), d))

DoAddCustomProperty == \E t \in Targets, a \in CustomArgs :
    Set(t, AddCustomProperty(heap, Card(t), a[1], a[2]))
DoAddCustomProperties == \E t \in Targets :
    Set(t, AddCustomProperties(heap, Card(t), CustomBatch))

DoReset == \E t \in Targets :
    Call(t, Reset(heap, Card(t)), Ret("Reset", t, "", Nil))

\* c = v.Clone()
DoClone ==
    LET r == Clone(heap, v)
    IN /\ steps < StepBound
       /\ v' = v
       /\ c' = r.card
       /\ heap' = Collect(r.heap, <<v, r.card, held>>)
       /\ ret' = Ret("Clone", "v", "", Nil)
       /\ steps' = steps + 1
       /\ UNCHANGED <<fnVars, held, file>>

DoValidate == \E t \in Targets :
    Call(t, [heap |-> heap, card |-> Card(t)],
         Ret("Validate", t, "", Validate(heap, Card(t))))

DoString == \E t \in Targets : \E order \in RangeOrders(heap[Card(t).customProps]) :
    LET s == String(heap, Card(t), order)
    IN Call(t, [heap |-> heap, card |-> Card(t)], Ret("String", t, s.text, s.err))

\* a call of a getter that returns a value
Get(t, op, value) ==
    /\ steps < StepBound
    /\ ret' = Ret(op, t, "", Nil)
    /\ res' = <<value>>
    /\ steps' = steps + 1
    /\ UNCHANGED <<v, c, heap, held, file, arg, pc>>

DoGetEmail == \E t \in Targets : Get(t, "GetEmail", GetEmail(heap, Card(t)))
DoGetPhone == \E t \in Targets : Get(t, "GetPhone", GetPhone(heap, Card(t)))
DoGetAddress == \E t \in Targets : Get(t, "GetAddress", GetAddress(heap, Card(t)))
DoGetURL == \E t \in Targets : Get(t, "GetURL", GetURL(heap, Card(t)))

\* a call of a getter whose result the program keeps: `now` is what it holds
\* after the call, h the heap the call leaves
Hold(t, op, h, now) ==
    /\ steps < StepBound
    /\ ret' = Ret(op, t, "", Nil)
    /\ held' = now
    /\ heap' = Collect(h, <<v, c, now>>)
    /\ steps' = steps + 1
    /\ UNCHANGED <<v, c, file, fnVars>>

DoGetEmails == \E t \in Targets :
    Hold(t, "GetEmails", heap,
         [held EXCEPT !.emails = GetEmails(Card(t)),
                      !.then.emails = Elems(heap, Card(t).emails)])
DoGetPhones == \E t \in Targets :
    Hold(t, "GetPhones", heap,
         [held EXCEPT !.phones = GetPhones(Card(t)),
                      !.then.phones = Elems(heap, Card(t).phones)])
DoGetAddresses == \E t \in Targets :
    Hold(t, "GetAddresses", heap,
         [held EXCEPT !.addresses = GetAddresses(Card(t)),
                      !.then.addresses = Elems(heap, Card(t).addresses)])
DoGetURLs == \E t \in Targets :
    Hold(t, "GetURLs", heap,
         [held EXCEPT !.urls = GetURLs(Card(t)),
                      !.then.urls = Elems(heap, Card(t).urls)])
\* GetCustomProperties(): the entries copied into a new map
DoGetCustomProperties == \E t \in Targets :
    LET id == Alloc(heap)
        props == GetCustomProperties(heap, Card(t))
    IN Hold(t, "GetCustomProperties", Store(heap, id, props),
            [held EXCEPT !.customProps = id, !.then.customProps = props])

\* v = New() or v = NewWithVersion(version)
Init ==
    /\ \E version \in {Version30, Version40} :
        /\ v = NewWithVersion(EmptyMap, version).card
        /\ heap = NewWithVersion(EmptyMap, version).heap
    /\ c = NoCard
    /\ ret = Ret("New", "v", "", Nil)
    /\ steps = 0
    /\ held = NothingHeld
    /\ file = NoFile
    /\ arg = ""
    /\ res = <<>>
    /\ pc = "card"

Next ==
    \/ DoSetVersion
    \/ DoAddName \/ DoAddMiddleName \/ DoAddPrefix \/ DoAddSuffix \/ DoSetName
    \/ DoAddEmail \/ DoAddEmailWithPreference \/ DoAddEmails
    \/ DoAddPhone \/ DoAddPhoneWithPreference \/ DoAddPhones
    \/ DoAddAddress \/ DoAddAddressExtended \/ DoAddAddressWithPreference
    \/ DoAddAddresses
    \/ DoAddOrganization \/ DoAddDepartment \/ DoAddTitle \/ DoAddRole
    \/ DoSetOrganization
    \/ DoAddURL \/ DoAddURLWithPreference \/ DoAddURLs
    \/ DoAddPhoto \/ DoAddNote \/ DoAddBirthday \/ DoAddAnniversary
    \/ DoAddCustomProperty \/ DoAddCustomProperties
    \/ DoReset \/ DoClone \/ DoValidate \/ DoString

Spec == Init /\ [][Next]_vars

----------------------------------------------------------------------------
(* The helper functions on their own: escapeValue then unescapeValue on a  *)
(* string, and foldLine on a line.                                         *)

\* the runes the escaping treats specially, the letters of the escapes, and a plain one
EscRunes == {"\\", ",", ";", "\n", "\r", "n", "r", "t", "a"}

RECURSIVE StringsOver(_, _)
\* the strings of at most n runes over a set of runes
StringsOver(runes, n) ==
    IF n = 0 THEN {""}
    ELSE LET shorter == StringsOver(runes, n - 1)
         IN shorter \cup {s \o ch : s \in shorter, ch \in runes}

\* the card variables while a helper function runs
CardIdle ==
    /\ v = New(EmptyMap).card
    /\ heap = New(EmptyMap).heap
    /\ c = NoCard
    /\ ret = Ret("New", "v", "", Nil)
    /\ steps = 0
    /\ held = NothingHeld
    /\ file = NoFile

InitEscape ==
    /\ CardIdle
    /\ arg \in StringsOver(EscRunes, MaxEscLen)
    /\ res = <<>>
    /\ pc = "escape"

\* escaped := escapeValue(arg)
Escape ==
    /\ pc = "escape"
    /\ res' = <<escapeValue(arg)>>
    /\ pc' = "unescape"
    /\ UNCHANGED <<arg, cardVars>>

\* unescapeValue(escaped)
Unescape ==
    /\ pc = "unescape"
    /\ res' = <<res[1], unescapeValue(res[1])>>
    /\ pc' = "unescaped"
    /\ UNCHANGED <<arg, cardVars>>

NextEscape == Escape \/ Unescape

SpecEscape == InitEscape /\ [][NextEscape]_vars

\* lines around the folding width: ASCII runes, then wide runes, then ASCII runes
FoldLines ==
    {Repeat("x", p) \o Repeat(w, k) \o Repeat("y", q) :
        p \in {0, FoldWidth - 2, FoldWidth - 1, FoldWidth},
        w \in {"é", "€"},
        k \in 0..MaxWide,
        q \in {0, 1, FoldWidth - 1, FoldWidth, FoldWidth + 1}}

InitFold ==
    /\ CardIdle
    /\ arg \in FoldLines
    /\ res = <<>>
    /\ pc = "fold"

\* foldLine(arg)
Fold ==
    /\ pc = "fold"
    /\ res' = <<foldLine(arg)>>
    /\ pc' = "folded"
    /\ UNCHANGED <<arg, cardVars>>

NextFold == Fold

SpecFold == InitFold /\ [][NextFold]_vars

----------------------------------------------------------------------------
(* Adders, Reset and the getters on one card *)

InitGet ==
    /\ CardIdle
    /\ arg = ""
    /\ res = <<>>
    /\ pc = "get"

NextGet ==
    \/ DoAddEmail \/ DoAddEmails \/ DoAddPhone \/ DoAddAddress \/ DoAddURL
    \/ DoAddCustomProperty \/ DoReset
    \/ DoGetEmail \/ DoGetPhone \/ DoGetAddress \/ DoGetURL
    \/ DoGetEmails \/ DoGetPhones \/ DoGetAddresses \/ DoGetURLs
    \/ DoGetCustomProperties

SpecGet == InitGet /\ [][NextGet]_vars

----------------------------------------------------------------------------
(* One card with the calls that return an error, AddContact and a file *)

\* *string fields of Contact: nil or a pointer to a string
NoString == <<>>
Ptr(s) == <<s>>

\* Contact{}
EmptyContact ==
    [Name |-> EmptyName, Emails |-> <<>>, Phones |-> <<>>, Addresses |-> <<>>,
     Organization |-> EmptyOrganization, URLs |-> <<>>, Photo |-> "", Note |-> "",
     Birthday |-> NoString, Anniversary |-> NoString, CustomProps |-> EmptyMap]

\* a contact with every field filled
FullContact ==
    [Name |-> [EmptyName EXCEPT !.First = "Jane", !.Last = "Roe"],
     Emails |-> <<Email("jane@x.org", "WORK", FALSE)>>,
     Phones |-> <<Phone("+555", "HOME", FALSE)>>,
     Addresses |-> <<Address("3 Elm St", "", "Town", "", "", "", "WORK", FALSE)>>,
     Organization |-> [EmptyOrganization EXCEPT !.Name = "Initech", !.Title = "CEO"],
     URLs |-> <<URL("https://jane.org", "", FALSE)>>,
     Photo |-> "https://x.org/jane.jpg", Note |-> "met in 2020",
     Birthday |-> Ptr("1985-03-07"), Anniversary |-> Ptr("2010-06-20"),
     CustomProps |-> [k \in {"x-b", "X-D"} |-> IF k = "x-b" THEN "7" ELSE "8"]]

\* a contact whose organization has no name and whose dates do not parse
LooseContact ==
    [EmptyContact EXCEPT !.Name = [EmptyName EXCEPT !.Last = "Roe"],
                         !.Organization = [EmptyOrganization EXCEPT !.Title = "Boss",
                                                                    !.Role = "Owner"],
                         !.Birthday = Ptr("not a date"),
                         !.Anniversary = Ptr("2023-02-30")]

Contacts == {EmptyContact, FullContact, LooseContact}

DateStrings == {"1985-03-07", "2024-02-29", "2023-02-29", "1990-13-01", "1990-1-15",
                "1990-01-15T", "not a date", ""}

\* what is at the path AddPhotoFromFile is given
PhotoFiles == {NoFile, File("ABC"), File("Hi")}

\* a call on card t made with `input` that leaves the card as r.card in heap
\* r.heap and the file as f
CallIO(t, r, result, input, f) ==
    LET newV == IF t = "v" THEN r.card ELSE v
        newC == IF t = "c" THEN r.card ELSE c
    IN /\ steps < StepBound
       /\ v' = newV
       /\ c' = newC
       /\ heap' = Collect(r.heap, <<newV, newC, held>>)
       /\ ret' = result
       /\ res' = <<input>>
       /\ file' = f
       /\ steps' = steps + 1
       /\ UNCHANGED <<arg, pc, held>>

DoAddContact == \E t \in Targets, contact \in Contacts :
    CallIO(t, AddContact(heap, Card(t), contact).r, Ret("AddContact", t, "", Nil),
           contact, file)

DoAddBirthdayFromString == \E t \in Targets, dateStr \in DateStrings :
    LET r == AddBirthdayFromString(Card(t), dateStr)
    IN CallIO(t, [heap |-> heap, card |-> r.card],
              Ret("AddBirthdayFromString", t, "", r.err), dateStr, file)

DoAddAnniversaryFromString == \E t \in Targets, dateStr \in DateStrings :
    LET r == AddAnniversaryFromString(Card(t), dateStr)
    IN CallIO(t, [heap |-> heap, card |-> r.card],
              Ret("AddAnniversaryFromString", t, "", r.err), dateStr, file)

DoAddPhotoFromFile == \E t \in Targets, f \in PhotoFiles :
    LET r == AddPhotoFromFile(Card(t), f)
    IN CallIO(t, [heap |-> heap, card |-> r.card],
              Ret("AddPhotoFromFile", t, "", r.err), f, file)

\* a call that reads card t and returns (b.bytes, b.err)
Returns(t, op, b, input, f) ==
    CallIO(t, [heap |-> heap, card |-> Card(t)], Ret(op, t, b.bytes, b.err), input, f)

DoBytes == \E t \in Targets : \E order \in RangeOrders(heap[Card(t).customProps]) :
    Returns(t, "Bytes", Bytes(heap, Card(t), order), [order |-> order], file)

\* a call of SaveToFile on card t that ends as w
Saves(t, w, input) ==
    Returns(t, "SaveToFile", [bytes |-> "", err |-> w.err], input, w.file)

DoSaveToFile == \E t \in Targets, outcome \in WriteOutcomes :
    \E order \in RangeOrders(heap[Card(t).customProps]) :
        Saves(t, SaveToFile(heap, Card(t), order, file, outcome),
              [outcome |-> outcome, order |-> order])

InitIO ==
    /\ v = New(EmptyMap).card
    /\ heap = New(EmptyMap).heap
    /\ c = NoCard
    /\ ret = Ret("New", "v", "", Nil)
    /\ steps = 0
    /\ held = NothingHeld
    /\ file \in {NoFile, File("old")}
    /\ arg = ""
    /\ res = <<>>
    /\ pc = "io"

NextIO ==
    \/ DoAddName \/ DoAddEmail \/ DoSetOrganization \/ DoAddPhoto \/ DoAddNote
    \/ DoAddBirthday \/ DoAddAnniversary \/ DoAddCustomProperty
    \/ DoAddContact
    \/ DoAddBirthdayFromString \/ DoAddAnniversaryFromString \/ DoAddPhotoFromFile
    \/ DoBytes \/ DoSaveToFile

SpecIO == InitIO /\ [][NextIO]_vars

----------------------------------------------------------------------------
(* Reading the text String() returned *)

\* the physical lines of a text: the pieces ended by "\n"
Lines(text) ==
    LET parts == Split(text, "\n") IN SubSeq(parts, 1, Len(parts) - 1)

\* a physical line without the "\r" of a fold's line break and without the
\* single leading space of a continuation line
Visible(line) ==
    LET l1 == IF Len(line) > 0 /\ At(line, Len(line)) = "\r"
              THEN SubSeq(line, 1, Len(line) - 1) ELSE line
    IN IF HasPrefix(l1, " ") THEN From(l1, 2) ELSE l1

\* the text with the folds taken out
Unfold(text) == ReplaceAll(text, "\r\n ", "")

\* the unfolded lines of property `name`, in the order of the text
PropertyLines(text, name) ==
    SelectSeq(Lines(Unfold(text)),
              LAMBDA l : HasPrefix(l, name \o ":") \/ HasPrefix(l, name \o ";"))

\* the value of a property line: what follows its first ":"
ValueOf(line) == From(line, Index(line, ":") + 1)

\* the number of lines equal to `line`
Count(lines, line) == Cardinality({i \in 1..Len(lines) : lines[i] = line})

\* the card the last call was made on
Last == Card(ret.on)

\* the last call was String() and it returned a text
Encoded == ret.op = "String" /\ ret.err = Nil

----------------------------------------------------------------------------
(* Claims *)

\* the three conditions under which a contact is not valid
Invalid(w) ==
    \/ w.name.First = "" /\ w.name.Last = ""
    \/ \E i \in 1..Len(w.emails) : w.emails[i].Address = ""
    \/ \E i \in 1..Len(w.phones) : w.phones[i].Number = ""

\* C1: on every contact state Validate() returns an error if and only if both
\* first and last name are empty, or some email has an empty address, or some
\* phone has an empty number; a call of Validate() returns just that.  Empty
\* URL or address entries and malformed values do not make it fail.
C1_ValidateIff ==
    /\ \A t \in Targets :
        (Validate(heap, Card(t)) # Nil) <=> Invalid(View(heap, Card(t)))
    /\ ret.op = "Validate" => ret.err = Validate(heap, Last)

\* Validate() succeeded on a card that holds a URL entry with an empty address
C1_Witness ==
    /\ ret.op = "Validate"
    /\ ret.err = Nil
    /\ \E i \in 1..Last.urls.len : Elems(heap, Last.urls)[i].Address = ""

\* C2: String() succeeds exactly when Validate() succeeds (when IsValid() is
\* true), and when it fails it returns the empty text with an error.
C2_StringFailsClosed ==
    ret.op = "String" =>
        /\ (ret.err = Nil) <=> (Validate(heap, Last) = Nil)
        /\ (ret.err = Nil) <=> IsValid(heap, Last)
        /\ ret.err # Nil => ret.text = ""
        /\ ret.err = Nil => ret.text # ""

\* String() failed on a card that has a name: an entry with an empty value
C2_Witness ==
    /\ ret.op = "String"
    /\ ret.err # Nil
    /\ ret.text = ""
    /\ Last.name.First # ""

C4_OneBeginOneEnd ==
    Encoded =>
        LET lines == Lines(ret.text)
        IN /\ lines[1] = "BEGIN:VCARD"
           /\ Count(lines, "BEGIN:VCARD") = 1
           /\ lines[2] = "VERSION:" \o Last.version
           /\ lines[Len(lines)] = "END:VCARD"
           /\ Count(lines, "END:VCARD") = 1

\* C5: unescapeValue(escapeValue(s)) = s for every string s.
C5_RoundTrip == pc = "unescaped" => res[2] = arg

\* C6: every physical line of the text String() returns is at most 75
\* characters long, not counting the leading space of a continuation line.
C6_LinesAtMost75 ==
    Encoded =>
        \A i \in 1..Len(Lines(ret.text)) :
            Len(Visible(Lines(ret.text)[i])) <= FoldWidth

\* folding that counts code points: a break before code points 75, 150, ...
FoldByCodePoints(line) ==
    IF Len(line) <= FoldWidth THEN line
    ELSE Join([k \in 1..Len(line) |->
                  (IF k > 1 /\ (k - 1) % FoldWidth = 0 THEN "\r\n " ELSE "")
                  \o At(line, k)], "")

\* C7: foldLine measures the line in code points: unchanged iff at most 75 code
\* points, else CRLF and a space before every 75th code point, also with
\* multi-byte characters in the line.
C7_FoldsByCodePoints ==
    pc = "folded" =>
        /\ res[1] = FoldByCodePoints(arg)
        /\ (res[1] = arg) <=> (Len(arg) <= FoldWidth)


\* what String() may return for a card, over the orders of ranging over its map
Texts(h, card) ==
    {String(h, card, order) : order \in RangeOrders(h[card.customProps])}

\* one call, seen from the clone and from the original
CloneStep ==
    /\ ret'.op = "Clone" => View(heap', c') = View(heap', v')
    /\ c # NoCard /\ ret'.op # "Clone" /\ ret'.on = "v" =>
        /\ View(heap', c') = View(heap, c)
        /\ Texts(heap', c') = Texts(heap, c)
    /\ c # NoCard /\ ret'.on = "c" =>
        /\ View(heap', v') = View(heap, v)
        /\ Texts(heap', v') = Texts(heap, v)

\* C8: right after c = v.Clone() every field of c equals that of v; no later
\* call on v (setter, adder, Reset) changes the fields or the String() output
\* of c, and no call on c changes those of v.
C8_CloneIsSnapshot == [][CloneStep]_vars

\* a call on v went by that left the clone, which holds entries, different from v
C8_Witness ==
    /\ c # NoCard
    /\ ret.op \in {"set", "Reset"}
    /\ ret.on = "v"
    /\ c.emails.len > 0 \/ heap[c.customProps] # EmptyMap
    /\ View(heap, c) # View(heap, v)

\* C9: after Reset() the contact equals a freshly constructed New(): version
\* 3.0, empty name, organization, sequences, photo and note, no dates, no custom
\* properties; Validate() fails and every accessor returns the empty value.
C9_ResetIsNew ==
    ret.op = "Reset" =>
        LET fresh == New(EmptyMap)
        IN /\ View(heap, Last) = View(fresh.heap, fresh.card)
           /\ Validate(heap, Last) # Nil
           /\ Texts(heap, Last) = {String(fresh.heap, fresh.card, <<>>)}
           /\ GetVersion(Last) = Version30
           /\ GetName(Last) = EmptyName
           /\ GetFormattedName(Last) = ""
           /\ GetOrganization(Last) = EmptyOrganization
           /\ GetEmail(heap, Last) = ""
           /\ GetPhone(heap, Last) = ""
           /\ GetURL(heap, Last) = ""
           /\ GetAddress(heap, Last) = <<>>
           /\ GetPhoto(Last) = ""
           /\ GetNote(Last) = ""
           /\ GetBirthday(Last) = NoDate
           /\ GetAnniversary(Last) = NoDate
           /\ GetCustomProperties(heap, Last) = EmptyMap
           /\ \A a \in CustomArgs : GetCustomProperty(heap, Last, a[1]) = ""

\* Reset() was called on a card that had emails and custom properties before
C9_Witness ==
    /\ ret.op = "Reset"
    /\ Cap(heap, Last.emails) > 0

\* the entries of the four sequences of a card: emails, phones, addresses, urls
Entries(h, card) ==
    <<Elems(h, card.emails), Elems(h, card.phones), Elems(h, card.addresses),
      Elems(h, card.urls)>>

\* the step leaves sequence k of card t as it was with xs appended, and the
\* other three sequences of t as they were
Appends(t, k, xs) ==
    LET old == Entries(heap, Card(t))
        new == Entries(heap', IF t = "v" THEN v' ELSE c')
    IN /\ new[k] = old[k] \o xs
       /\ \A j \in (1..Len(old)) \ {k} : new[j] = old[j]

\* the type an adder called without a type gives the entry
TypeOr(types, default) == IF Len(types) > 0 THEN types[1] ELSE default

\* every adder call appends its entries, in the order given, after those
\* already there, whether they are already present or not
AdderStep ==
    \A t \in Targets :
        /\ \A a \in EmailArgs :
            Set(t, AddEmail(heap, Card(t), a[1], a[2])) =>
                Appends(t, 1, <<[Address |-> a[1], Type |-> TypeOr(a[2], "INTERNET"),
                                 Preferred |-> FALSE]>>)
        /\ Set(t, AddEmailWithPreference(heap, Card(t), EmailPref[1], EmailPref[2],
                                         EmailPref[3])) =>
                Appends(t, 1, <<[Address |-> EmailPref[1], Type |-> EmailPref[2],
                                 Preferred |-> EmailPref[3]]>>)
        /\ Set(t, AddEmails(heap, Card(t), EmailBatch)) => Appends(t, 1, EmailBatch)
        /\ \A a \in PhoneArgs :
            Set(t, AddPhone(heap, Card(t), a[1], a[2])) =>
                Appends(t, 2, <<[Number |-> a[1], Type |-> TypeOr(a[2], "VOICE"),
                                 Preferred |-> FALSE]>>)
        /\ Set(t, AddPhoneWithPreference(heap, Card(t), PhonePref[1], PhonePref[2],
                                         PhonePref[3])) =>
                Appends(t, 2, <<[Number |-> PhonePref[1], Type |-> PhonePref[2],
                                 Preferred |-> PhonePref[3]]>>)
        /\ Set(t, AddPhones(heap, Card(t), PhoneBatch)) => Appends(t, 2, PhoneBatch)
        /\ \A a \in {Street, NoStreet} :
            Set(t, AddAddress(heap, Card(t), a[1], a[2], a[3], a[4], a[5], <<>>)) =>
                Appends(t, 3, <<[Street |-> a[1], Extended |-> "", City |-> a[2],
                                 State |-> a[3], PostalCode |-> a[4],
                                 Country |-> a[5], Type |-> "",
                                 Preferred |-> FALSE]>>)
        /\ Set(t, AddAddressExtended(heap, Card(t), "", ExtendedOnly, "", "", "", "",
                                     <<"HOME">>)) =>
                Appends(t, 3, <<[Street |-> "", Extended |-> ExtendedOnly, City |-> "",
                                 State |-> "", PostalCode |-> "", Country |-> "",
                                 Type |-> "HOME", Preferred |-> FALSE]>>)
        /\ Set(t, AddAddressWithPreference(heap, Card(t), Street[1], Street[2],
                                           Street[3], Street[4], Street[5],
                                           "WORK", TRUE)) =>
                Appends(t, 3, <<[Street |-> Street[1], Extended |-> "",
                                 City |-> Street[2], State |-> Street[3],
                                 PostalCode |-> Street[4], Country |-> Street[5],
                                 Type |-> "WORK", Preferred |-> TRUE]>>)
        /\ Set(t, AddAddresses(heap, Card(t), AddressBatch)) =>
                Appends(t, 3, AddressBatch)
        /\ \A a \in URLArgs :
            Set(t, AddURL(heap, Card(t), a[1], a[2])) =>
                Appends(t, 4, <<[Address |-> a[1], Type |-> TypeOr(a[2], ""),
                                 Preferred |-> FALSE]>>)
        /\ Set(t, AddURLWithPreference(heap, Card(t), URLPref[1], URLPref[2],
                                       URLPref[3])) =>
                Appends(t, 4, <<[Address |-> URLPref[1], Type |-> URLPref[2],
                                 Preferred |-> URLPref[3]]>>)
        /\ Set(t, AddURLs(heap, Card(t), URLBatch)) => Appends(t, 4, URLBatch)

\* the values of the lines of property `name`, in the order of the text
Values(text, name) ==
    LET lines == PropertyLines(text, name)
    IN [i \in 1..Len(lines) |-> ValueOf(lines[i])]

\* the text String() returned has one EMAIL, TEL, ADR and URL line per entry,
\* in the order of the entries
OneLinePerEntry(r, h, card) ==
    r.op = "String" /\ r.err = Nil =>
        LET e == Entries(h, card)
        IN /\ Values(r.text, "EMAIL")
                = [i \in 1..Len(e[1]) |-> escapeValue(e[1][i].Address)]
           /\ Values(r.text, "TEL")
                = [i \in 1..Len(e[2]) |-> escapeValue(e[2][i].Number)]
           /\ Values(r.text, "ADR")
                = [i \in 1..Len(e[3]) |-> StructuredAddress(e[3][i])]
           /\ Values(r.text, "URL")
                = [i \in 1..Len(e[4]) |-> escapeValue(e[4][i].Address)]

NameOf(line) ==
    LET ends == {i \in 1..Len(line) : At(line, i) \in {":", ";"}}
    IN IF ends = {} THEN line
       ELSE SubSeq(line, 1, (CHOOSE i \in ends : \A j \in ends : i <= j) - 1)

\* the properties in the order the spec lists them; ADR and LABEL share a place
PropertyOrder ==
    <<{"BEGIN"}, {"VERSION"}, {"N"}, {"FN"}, {"EMAIL"}, {"TEL"}, {"ADR", "LABEL"},
      {"ORG"}, {"TITLE"}, {"ROLE"}, {"URL"}, {"PHOTO"}, {"NOTE"}, {"BDAY"},
      {"ANNIVERSARY"}, {"X-"}, {"END"}>>

\* the places that may hold several lines
Repeated == {5, 6, 7, 11, 16}

\* the place of a line in PropertyOrder, 0 for a line of no listed property
Place(line) ==
    LET name == IF HasPrefix(line, "X-") THEN "X-" ELSE NameOf(line)
        at == {k \in 1..Len(PropertyOrder) : name \in PropertyOrder[k]}
    IN IF at = {} THEN 0 ELSE CHOOSE k \in at : TRUE

\* C11: the lines of the text String() returns appear in the fixed order
\* BEGIN, VERSION, N, FN, all EMAIL, all TEL, all ADR (each optionally
\* followed by its LABEL), ORG, TITLE, ROLE, all URL, PHOTO, NOTE, BDAY,
\* ANNIVERSARY, custom X- properties, END, whatever the order of the calls.
C11_FixedOrder ==
    Encoded =>
        LET lines == Lines(Unfold(ret.text))
        IN /\ \A i \in 1..Len(lines) : Place(lines[i]) # 0
           /\ \A i \in 1..(Len(lines) - 1) :
                \/ Place(lines[i]) < Place(lines[i + 1])
                \/ /\ Place(lines[i]) = Place(lines[i + 1])
                   /\ Place(lines[i]) \in Repeated
           /\ \A i \in 1..Len(lines) :
                NameOf(lines[i]) = "LABEL" => i > 1 /\ NameOf(lines[i - 1]) = "ADR"

\* a call that changed the version of a card without resetting it left the
\* card's anniversary as it was
VersionStep ==
    ret'.op = "set" =>
        /\ v'.version # v.version => v'.anniversary = v.anniversary
        /\ c # NoCard /\ c'.version # c.version => c'.anniversary = c.anniversary

\* the ANNIVERSARY lines of the text are the one line of the stored date when
\* the card's version is 4.0, and none otherwise
AnniversaryLine ==
    Encoded =>
        PropertyLines(ret.text, "ANNIVERSARY") =
            IF Last.anniversary.set /\ Last.version = Version40
            THEN <<"ANNIVERSARY:" \o FormatDate(Last.anniversary)>>
            ELSE <<>>

\* C12: a stored anniversary is emitted as an ANNIVERSARY:YYYY-MM-DD line if
\* and only if the version is 4.0 when String() is called; under 3.0 it is left
\* out and String() fails only if the card is not valid; SetVersion keeps the
\* stored date.
C12_AnniversaryIn40Only ==
    /\ [](AnniversaryLine
          /\ (ret.op = "String" => (ret.err = Nil <=> ~Invalid(View(heap, Last)))))
    /\ [][VersionStep]_vars

\* String() on a version 4.0 card with an anniversary returned the line
C12_Witness ==
    /\ Encoded
    /\ Last.anniversary.set
    /\ Last.version = Version40
    /\ Len(PropertyLines(ret.text, "ANNIVERSARY")) = 1

\* the entries of a card's map that writeCustomProperties writes a line for
Emitted(h, card) ==
    {k \in DOMAIN h[card.customProps] :
        HasPrefix(ToUpper(k), "X-") /\ h[card.customProps][k] # ""}

\* a call of String() leaves both cards and the heap as they were
StringStep ==
    ret'.op = "String" /\ steps' # steps => v' = v /\ c' = c /\ heap' = heap

\* the text String() returned is the text of every call on this card,
\* whatever order the map is ranged over
SameText ==
    Encoded /\ Cardinality(Emitted(heap, Last)) <= 1 =>
        \A order \in RangeOrders(heap[Last.customProps]) :
            String(heap, Last, order) = [text |-> ret.text, err |-> Nil]

\* C13: a call of String() changes no field of the contact, and on an
\* unchanged contact with at most one emitted custom property every call
\* returns the identical text.
C13_StringReadsOnly == []SameText /\ [][StringStep]_vars

\* String() returned a text for a card whose map holds two entries, one of
\* them emitted, so that the map can be ranged over in two orders
C13_Witness ==
    /\ Encoded
    /\ Cardinality(DOMAIN heap[Last.customProps]) = 2
    /\ Cardinality(Emitted(heap, Last)) = 1

\* what the escaping gives for one rune
EscapeRune(ch) ==
    IF ch = "\\" THEN "\\\\"
    ELSE IF ch = "," THEN "\\,"
    ELSE IF ch = ";" THEN "\\;"
    ELSE IF ch = "\n" THEN "\\n"
    ELSE IF ch = "\r" THEN "\\r"
    ELSE ch

\* the single-pass substitution, rune by rune
SinglePass(s) == Join([i \in 1..Len(s) |-> EscapeRune(At(s, i))], "")

\* the number of backslashes that directly precede rune i of s
BackslashesBefore(s, i) ==
    Cardinality({k \in 1..(i - 1) : \A j \in (i - k)..(i - 1) : At(s, j) = "\\"})

\* C14: escapeValue(s) is the single-pass substitution of s, rune by rune; the
\* result holds no raw LF or CR, and every "," or ";" in it is preceded by an
\* odd number of backslashes.
C14_EscapeSinglePass ==
    pc \in {"unescape", "unescaped"} =>
        /\ res[1] = SinglePass(arg)
        /\ \A i \in 1..Len(res[1]) :
            /\ At(res[1], i) \notin {"\n", "\r"}
            /\ At(res[1], i) \in {",", ";"} => BackslashesBefore(res[1], i) % 2 = 1

\* escapeValue ran on a string in which a backslash precedes a comma and a
\* line feed follows
C14_Witness ==
    /\ pc = "unescape"
    /\ arg = "\\,\n"
    /\ res[1] = "\\\\\\,\\n"

\* the fields of a structured value: its pieces between the ";" that are not
\* escaped (preceded by an even number of backslashes)
SplitUnescaped(s) ==
    LET cuts == {i \in 1..Len(s) : At(s, i) = ";" /\ BackslashesBefore(s, i) % 2 = 0}
        n == Cardinality(cuts)
        pos(k) == CHOOSE i \in cuts : Cardinality({j \in cuts : j < i}) = k - 1
        first(k) == IF k = 1 THEN 1 ELSE pos(k - 1) + 1
        last(k) == IF k = n + 1 THEN Len(s) ELSE pos(k) - 1
    IN [k \in 1..(n + 1) |-> SubSeq(s, first(k), last(k))]

\* the name parts in the order of the N property
NameParts(name) == <<name.Last, name.First, name.Middle, name.Prefix, name.Suffix>>

\* C15: String() emits exactly one N line, directly after VERSION; splitting
\* its value at the unescaped semicolons gives five fields, which unescape to
\* the stored last, first, middle, prefix and suffix, whatever runes they hold.
C15_StructuredName ==
    Encoded =>
        LET lines == Lines(ret.text)
            fields == SplitUnescaped(ValueOf(lines[3]))
        IN /\ PropertyLines(ret.text, "N") = <<lines[3]>>
           /\ HasPrefix(lines[2], "VERSION:")
           /\ Len(fields) = 5
           /\ \A k \in 1..5 : unescapeValue(fields[k]) = NameParts(Last.name)[k]

\* C16: for every valid contact String() emits exactly one FN line, whose
\* value is escapeValue(GetFormattedName()): the non-empty parts among prefix,
\* first, middle, last, suffix, in that order, joined by single spaces; the
\* "Last, First" form is never written.
C16_FormattedName ==
    Encoded =>
        LET name == Last.name
            parts == SelectSeq(<<name.Prefix, name.First, name.Middle, name.Last,
                                 name.Suffix>>, LAMBDA part : part # "")
        IN /\ PropertyLines(ret.text, "FN")
                = <<"FN:" \o escapeValue(GetFormattedName(Last))>>
           /\ GetFormattedName(Last) = Join(parts, " ")
           /\ name.First # "" /\ name.Last # "" =>
                ValueOf(PropertyLines(ret.text, "FN")[1])
                    # escapeValue(name.Last \o ", " \o name.First)

\* String() returned a text for a card with first and last name and a prefix
C16_Witness ==
    /\ Encoded
    /\ Last.name.First # "" /\ Last.name.Last # "" /\ Last.name.Prefix # ""
    /\ Len(PropertyLines(ret.text, "FN")) = 1

\* the parameters of the lines of property `name`: what stands between the
\* name and the first ":" of each line
Params(text, name) ==
    LET lines == PropertyLines(text, name)
    IN [i \in 1..Len(lines) |-> SubSeq(lines[i], Len(name) + 1, Index(lines[i], ":") - 1)]

\* the parameters the spec gives the line of an entry: the type clause, with
\* `default` for an empty type (no clause when both are empty), then PREF
ExpectedParams(entry, default) ==
    LET type == IF entry.Type # "" THEN entry.Type ELSE default
    IN (IF type # "" THEN ";TYPE=" \o type ELSE "")
       \o (IF entry.Preferred THEN ";PREF=1" ELSE "")

\* C17: every EMAIL line carries ;TYPE=<type>, INTERNET when the entry's type
\* is empty, every TEL line likewise with VOICE; URL and ADR lines carry a
\* ;TYPE= clause only when the entry's type is not empty; on all four ;PREF=1
\* follows the type clause if and only if the entry is preferred.
C17_TypeParameters ==
    Encoded =>
        LET e == Entries(heap, Last)
        IN /\ Params(ret.text, "EMAIL")
                = [i \in 1..Len(e[1]) |-> ExpectedParams(e[1][i], "INTERNET")]
           /\ Params(ret.text, "TEL")
                = [i \in 1..Len(e[2]) |-> ExpectedParams(e[2][i], "VOICE")]
           /\ Params(ret.text, "ADR")
                = [i \in 1..Len(e[3]) |-> ExpectedParams(e[3][i], "")]
           /\ Params(ret.text, "URL")
                = [i \in 1..Len(e[4]) |-> ExpectedParams(e[4][i], "")]

\* String() returned a text for a card with a preferred email of empty type
C17_Witness ==
    /\ Encoded
    /\ \E i \in 1..Last.emails.len :
        /\ Elems(heap, Last.emails)[i].Type = ""
        /\ Elems(heap, Last.emails)[i].Preferred
    /\ \E i \in 1..Len(Params(ret.text, "EMAIL")) :
        Params(ret.text, "EMAIL")[i] = ";TYPE=INTERNET;PREF=1"

\* an address entry with a street, city, state, postal code or country
HasLabel(a) ==
    a.Street # "" \/ a.City # "" \/ a.State # "" \/ a.PostalCode # "" \/ a.Country # ""

RECURSIVE ExpectedAddressLines(_)
\* what the spec has String() write for the address entries: for each entry
\* the ADR line, and the start of its LABEL line when the entry has one
ExpectedAddressLines(entries) ==
    IF Len(entries) = 0 THEN <<>>
    ELSE LET a == entries[1]
             adr == "ADR" \o ExpectedParams(a, "") \o ":"
                    \o Join(<<"", escapeValue(a.Extended), escapeValue(a.Street),
                              escapeValue(a.City), escapeValue(a.State),
                              escapeValue(a.PostalCode), escapeValue(a.Country)>>, ";")
             label == "LABEL" \o ExpectedParams(a, "") \o ":"
         IN <<adr>> \o (IF HasLabel(a) THEN <<label>> ELSE <<>>)
            \o ExpectedAddressLines(SubSeq(entries, 2, Len(entries)))

\* C18: for each address entry String() emits one ADR line whose value is the
\* seven ";"-joined escaped fields (empty post-office box, extended, street,
\* city, state, postal code, country), directly followed by a LABEL line with
\* the same TYPE/PREF parameters if and only if street, city, state, postal
\* code or country is not empty.
C18_AddressLines ==
    Encoded =>
        LET lines == Lines(Unfold(ret.text))
            at == {i \in 1..Len(lines) : NameOf(lines[i]) \in {"ADR", "LABEL"}}
            expected == ExpectedAddressLines(Elems(heap, Last.addresses))
        IN /\ Cardinality(at) = Len(expected)
           /\ \A i \in at : \A j \in at : \A k \in i..j : k \in at
           /\ \A i \in at :
                LET k == Cardinality({j \in at : j <= i})
                IN IF NameOf(lines[i]) = "ADR"
                   THEN /\ lines[i] = expected[k]
                        /\ Len(SplitUnescaped(ValueOf(lines[i]))) = 7
                   ELSE /\ NameOf(expected[k]) = "LABEL"
                        /\ HasPrefix(lines[i], expected[k])

\* String() returned a text for a card with an address that holds only an
\* extended field and with one that holds a street: two ADR lines, one LABEL
C18_Witness ==
    /\ Encoded
    /\ \E i \in 1..Last.addresses.len : ~HasLabel(Elems(heap, Last.addresses)[i])
    /\ \E i \in 1..Last.addresses.len : HasLabel(Elems(heap, Last.addresses)[i])
    /\ Len(PropertyLines(ret.text, "LABEL")) = 1
    /\ Len(PropertyLines(ret.text, "ADR")) = 2

\* the line of a property written only for a non-empty value
LineIf(present, line) == IF present THEN <<line>> ELSE <<>>

\* C19: the ORG line is emitted if and only if the organization name is not
\* empty, with the value name or name;department (no department part when it
\* is empty, no line for a department without a name); TITLE and ROLE are each
\* emitted if and only if their own value is not empty.
C19_OrganizationLines ==
    Encoded =>
        LET org == Last.organization
        IN /\ PropertyLines(ret.text, "ORG")
                = LineIf(org.Name # "",
                         "ORG:" \o escapeValue(org.Name)
                         \o (IF org.Department # ""
                             THEN ";" \o escapeValue(org.Department) ELSE ""))
           /\ PropertyLines(ret.text, "TITLE")
                = LineIf(org.Title # "", "TITLE:" \o escapeValue(org.Title))
           /\ PropertyLines(ret.text, "ROLE")
                = LineIf(org.Role # "", "ROLE:" \o escapeValue(org.Role))

\* String() returned a text for a card with a department and no organization
\* name: no ORG line
C19_Witness ==
    /\ Encoded
    /\ Last.organization.Name = ""
    /\ Last.organization.Department # ""
    /\ PropertyLines(ret.text, "ORG") = <<>>

\* the start of the PHOTO line the spec gives a photo, chosen by its prefix
PhotoHeader(photo) ==
    IF HasPrefix(photo, "http://") \/ HasPrefix(photo, "https://")
    THEN "PHOTO;VALUE=uri:"
    ELSE IF HasPrefix(photo, "data:") THEN "PHOTO;ENCODING=b:"
    ELSE "PHOTO;ENCODING=b;TYPE=JPEG:"

\* C20: a non-empty photo yields exactly one PHOTO line: PHOTO;VALUE=uri: for
\* a value starting with http:// or https://, else PHOTO;ENCODING=b: for one
\* starting with data:, else PHOTO;ENCODING=b;TYPE=JPEG:, each followed by the
\* stored value as it is, without escaping; an empty photo yields no PHOTO line.
C20_PhotoLine ==
    Encoded =>
        LET lines == PropertyLines(ret.text, "PHOTO")
            photo == Last.photo
        IN IF photo = "" THEN lines = <<>>
           ELSE /\ Len(lines) = 1
                /\ HasPrefix(lines[1], PhotoHeader(photo))
                /\ Index(Unfold(ret.text), "\n" \o PhotoHeader(photo) \o photo \o "\n") # 0

\* String() returned a text for a card whose photo is a data: URI holding
\* ";" and ","
C20_Witness ==
    /\ Encoded
    /\ HasPrefix(Last.photo, "data:")
    /\ PropertyLines(ret.text, "PHOTO") = <<"PHOTO;ENCODING=b:data:image/png;base64,QUJD">>

\* the lines of the custom properties in the text
CustomLines(text) ==
    SelectSeq(Lines(Unfold(text)), LAMBDA l : HasPrefix(ToUpper(l), "X-"))

\* the keys of a card's map that start with X-, in any case
XKeys(h, card) ==
    {k \in DOMAIN h[card.customProps] : HasPrefix(ToUpper(k), "X-")}

\* the custom lines of the text are one line KEY:value per key of `keys`, the
\* key upper-cased and the value escaped
OneLinePerKey(keys) ==
    LET lines == CustomLines(ret.text)
        m == heap[Last.customProps]
    IN /\ Len(lines) = Cardinality(keys)
       /\ {lines[i] : i \in 1..Len(lines)}
            = {ToUpper(k) \o ":" \o escapeValue(m[k]) : k \in keys}

\* C21 as claimed: String() emits exactly one line per custom-property entry
\* whose key starts with X- in any case, the key upper-cased and the value
\* escaped, and no line for an entry whose key lacks the prefix.
C21_OneLinePerXKey == Encoded => OneLinePerKey(XKeys(heap, Last))

\* C21, amended: String() emits exactly one line per custom-property entry
\* whose key starts with X- in any case and whose value is not empty, the key
\* upper-cased and the value escaped, and no line for any other entry.
C21_OneLinePerXKeyWithValue ==
    Encoded => OneLinePerKey({k \in XKeys(heap, Last) : heap[Last.customProps][k] # ""})

\* String() returned a text for a card whose map holds X-A with a value and
\* X-C with the empty value: one custom line
C21_Witness ==
    /\ Encoded
    /\ \E k \in XKeys(heap, Last) : heap[Last.customProps][k] = ""
    /\ CustomLines(ret.text) = <<"X-A:9">>

\* what the four first-entry getters return on a card
First(h, card) ==
    <<GetEmail(h, card), GetPhone(h, card), GetAddress(h, card), GetURL(h, card)>>

\* what a first-entry getter returns for entry e of sequence k
ValueIn(k, e) ==
    IF k = 1 THEN e.Address ELSE IF k = 2 THEN e.Number ELSE IF k = 3 THEN <<e>>
    ELSE e.Address

\* what a first-entry getter returns on the empty sequence k
NoValue(k) == IF k = 3 THEN <<>> ELSE ""

\* a step leaves the four getters returning "" (nil) for a sequence that is
\* empty and after Reset(), the first entry added to a sequence that was empty,
\* and what they returned before for a sequence that was not empty; a getter
\* returns that value and no error
FirstStep ==
    LET old == Entries(heap, v)
        new == Entries(heap', v')
        was == First(heap, v)
        now == First(heap', v')
        getter == <<"GetEmail", "GetPhone", "GetAddress", "GetURL">>
    IN steps' # steps =>
        \A k \in 1..4 :
            /\ new[k] = <<>> => now[k] = NoValue(k)
            /\ ret'.op = "Reset" => now[k] = NoValue(k)
            /\ old[k] = <<>> /\ new[k] # <<>> => now[k] = ValueIn(k, new[k][1])
            /\ old[k] # <<>> /\ ret'.op # "Reset" => now[k] = was[k]
            /\ ret'.op = getter[k] => res' = <<was[k]>> /\ ret'.err = Nil

\* C22: GetEmail(), GetPhone(), GetURL() and GetAddress() never fail; on an
\* empty sequence they return the empty string (nil for GetAddress), otherwise
\* the first entry added since construction or the last Reset(), whatever was
\* added after it.
C22_FirstEntry == [][FirstStep]_vars

\* GetEmail() returned the first of several different emails
C22_Witness ==
    /\ ret.op = "GetEmail"
    /\ v.emails.len >= 2
    /\ Elems(heap, v.emails)[1].Address # Elems(heap, v.emails)[v.emails.len].Address
    /\ res = <<Elems(heap, v.emails)[1].Address>>

\* the positions of the line feeds of a text that follow a carriage return,
\* and of those that do not
LineFeeds(text, afterCR) ==
    {i \in 1..Len(text) :
        /\ At(text, i) = "\n"
        /\ afterCR <=> (i > 1 /\ At(text, i - 1) = "\r")}

\* C26: every line break in the text String() returns uses one and the same
\* terminator: the break that ends a property line and the break a fold
\* inserts are the same characters, bare LF and CRLF are never mixed.
C26_OneTerminator ==
    Encoded => LineFeeds(ret.text, TRUE) = {} \/ LineFeeds(ret.text, FALSE) = {}

\* the lines of a text that are not the continuation of a folded line
Heads(text) == SelectSeq(Lines(text), LAMBDA l : ~HasPrefix(l, " "))

\* the number of property lines of a valid card, from the fields and entries
\* that are set
LineCount(h, card) ==
    LET If(b) == IF b THEN 1 ELSE 0
        addresses == Elems(h, card.addresses)
    IN 5 + card.emails.len + card.phones.len + card.addresses.len
       + Cardinality({i \in 1..Len(addresses) : HasLabel(addresses[i])})
       + If(card.organization.Name # "") + If(card.organization.Title # "")
       + If(card.organization.Role # "")
       + card.urls.len + If(card.photo # "") + If(card.note # "")
       + If(card.birthday.set)
       + If(card.anniversary.set /\ card.version = Version40)
       + Cardinality(Emitted(h, card))

\* C27: no caller-supplied string can add a line to the output: every line of
\* String() that is not a fold continuation starts with a listed property
\* name or X-, and the number of such lines depends only on which fields and
\* entries are set, not on the characters in any value.
C27_NoAddedLine ==
    Encoded =>
        /\ \A i \in 1..Len(Heads(ret.text)) : Place(Heads(ret.text)[i]) # 0
        /\ Len(Heads(ret.text)) = LineCount(heap, Last)

\* a call of Bytes() returns what String() returns for the same card and
\* changes nothing
BytesStep ==
    ret'.op = "Bytes" /\ steps' # steps =>
        LET s == String(heap, v, res'[1].order)
        IN /\ ret'.text = s.text /\ ret'.err = s.err
           /\ v' = v /\ heap' = heap /\ file' = file

\* a call of SaveToFile on an invalid card returns the error of String() and
\* leaves the path as it was; on a valid card the file holds the text of
\* String() when the write goes through, and the error of the write is
\* returned when it does not
SaveStep ==
    ret'.op = "SaveToFile" /\ steps' # steps =>
        LET s == String(heap, v, res'[1].order)
        IN /\ v' = v /\ heap' = heap
           /\ IF ~IsValid(heap, v)
              THEN /\ ret'.err = Wrap("vcard validation failed: ", Validate(heap, v))
                   /\ file' = file
              ELSE IF res'[1].outcome = "written"
              THEN ret'.err = Nil /\ file' = File(s.text)
              ELSE ret'.err # Nil

\* C23: Bytes() returns exactly the bytes of String() with the same error
\* outcome; SaveToFile(path) on an invalid contact returns the validation
\* error without creating or modifying the file at path, and on a valid
\* contact replaces the file's content with exactly the text of String().
C23_BytesAndSaveToFile == [][BytesStep /\ SaveStep]_vars

\* SaveToFile on an invalid card returned the error and left the old file
C23_Witness ==
    /\ ret.op = "SaveToFile"
    /\ ~IsValid(heap, v)
    /\ ret.err # Nil
    /\ file = File("old")

\* AddContact returns an error when one of the calls it makes returned one
SwallowStep ==
    ret'.op = "AddContact" /\ steps' # steps =>
        \A i \in 1..2 :
            AddContact(heap, v, res'[1]).failed[i] # Nil => ret'.err # Nil

\* C24: no contact operation silently swallows a failure: a failure of a step
\* inside an operation, such as a Birthday or Anniversary string that does not
\* parse given to AddContact, is returned to the caller as an error.
C24_NoSwallowedFailure == [][SwallowStep]_vars

\* the date strings that name no calendar day in the form YYYY-MM-DD
InvalidDates == {"2023-02-29", "1990-13-01", "1990-1-15", "1990-01-15T",
                 "not a date", ""}

\* a call that fails on its input returns an error and changes nothing
FailedStep ==
    /\ /\ ret'.op \in {"AddBirthdayFromString", "AddAnniversaryFromString"}
       /\ steps' # steps
       /\ res'[1] \in InvalidDates
       => ret'.err # Nil /\ v' = v /\ heap' = heap
    /\ ret'.op = "AddPhotoFromFile" /\ steps' # steps /\ res'[1] = NoFile
       => ret'.err # Nil /\ v' = v /\ heap' = heap

\* C25: AddBirthdayFromString(s) and AddAnniversaryFromString(s) with s not a
\* valid YYYY-MM-DD calendar date return an error and leave the stored date
\* and every other field unchanged; AddPhotoFromFile leaves the photo
\* unchanged when the file cannot be read.
C25_FailedCallsChangeNothing == [][FailedStep]_vars

\* AddBirthdayFromString failed on a card that has a birthday, and it is kept
C25_Witness ==
    /\ ret.op = "AddBirthdayFromString"
    /\ ret.err # Nil
    /\ v.birthday = Date(1990, 1, 15)

\* what AddContact(k) leaves of a card
ContactStep ==
    ret'.op = "AddContact" /\ steps' # steps =>
        LET k == res'[1]
            was == heap[v.customProps]
            now == heap'[v'.customProps]
        IN /\ ret'.on = "v" /\ ret'.err = Nil
           /\ v'.name = k.Name
           /\ k.Name = EmptyName => ~IsValid(heap', v')
           /\ Elems(heap', v'.emails) = Elems(heap, v.emails) \o k.Emails
           /\ Elems(heap', v'.phones) = Elems(heap, v.phones) \o k.Phones
           /\ Elems(heap', v'.addresses) = Elems(heap, v.addresses) \o k.Addresses
           /\ Elems(heap', v'.urls) = Elems(heap, v.urls) \o k.URLs
           /\ DOMAIN now = (DOMAIN was) \cup (DOMAIN k.CustomProps)
           /\ \A key \in DOMAIN now :
                now[key] = IF key \in DOMAIN k.CustomProps THEN k.CustomProps[key]
                           ELSE was[key]
           /\ v'.organization = IF k.Organization.Name # "" THEN k.Organization
                                ELSE v.organization
           /\ v'.photo = IF k.Photo # "" THEN k.Photo ELSE v.photo
           /\ v'.note = IF k.Note # "" THEN k.Note ELSE v.note
           /\ v'.version = v.version

\* C28: AddContact(c) overwrites the whole name with c.Name unconditionally
\* (an empty c.Name leaves an invalid card), appends c's emails, phones,
\* addresses and URLs after the entries present, merges c's custom
\* properties over the existing ones, and replaces organization, photo and
\* note only when c.Organization.Name, c.Photo, c.Note is non-empty.
C28_AddContact == [][ContactStep]_vars

\* AddContact with a contact whose organization has only a title and a role
\* kept the organization of the card and replaced its name
C28_Witness ==
    /\ ret.op = "AddContact"
    /\ res = <<LooseContact>>
    /\ v.organization = FullOrganization
    /\ v.name = LooseContact.Name

\* the single fields of a card, its sequences and its map
Fields(h, card) ==
    [version |-> card.version,
     First |-> card.name.First, Last |-> card.name.Last,
     Middle |-> card.name.Middle, Prefix |-> card.name.Prefix,
     Suffix |-> card.name.Suffix,
     emails |-> Elems(h, card.emails), phones |-> Elems(h, card.phones),
     addresses |-> Elems(h, card.addresses),
     Name |-> card.organization.Name, Department |-> card.organization.Department,
     Title |-> card.organization.Title, Role |-> card.organization.Role,
     urls |-> Elems(h, card.urls), photo |-> card.photo, note |-> card.note,
     birthday |-> card.birthday, anniversary |-> card.anniversary,
     customProps |-> h[card.customProps]]

\* the fields that hold a sequence
Sequences == {"emails", "phones", "addresses", "urls"}

\* this step returned its receiver and changed at most the fields `own` of
\* it, a sequence among them only by adding entries at its end
Only(own) ==
    LET was == Fields(heap, Card(ret'.on))
        now == Fields(heap', IF ret'.on = "v" THEN v' ELSE c')
    IN /\ ret'.op = "set" /\ ret'.err = Nil
       /\ \A f \in (DOMAIN was) \ own : now[f] = was[f]
       /\ \A f \in own \cap Sequences :
            /\ Len(now[f]) >= Len(was[f])
            /\ SubSeq(now[f], 1, Len(was[f])) = was[f]

\* every setter and adder, with the fields it may change
SetterStep ==
    /\ DoSetVersion => Only({"version"})
    /\ DoAddName => Only({"First", "Last"})
    /\ DoAddMiddleName => Only({"Middle"})
    /\ DoAddPrefix => Only({"Prefix"})
    /\ DoAddSuffix => Only({"Suffix"})
    /\ DoSetName => Only({"First", "Last", "Middle", "Prefix", "Suffix"})
    /\ DoAddEmail \/ DoAddEmailWithPreference \/ DoAddEmails => Only({"emails"})
    /\ DoAddPhone \/ DoAddPhoneWithPreference \/ DoAddPhones => Only({"phones"})
    /\ DoAddAddress \/ DoAddAddressExtended \/ DoAddAddressWithPreference
       \/ DoAddAddresses => Only({"addresses"})
    /\ DoAddOrganization => Only({"Name"})
    /\ DoAddDepartment => Only({"Department"})
    /\ DoAddTitle => Only({"Title"})
    /\ DoAddRole => Only({"Role"})
    /\ DoSetOrganization => Only({"Name", "Department", "Title", "Role"})
    /\ DoAddURL \/ DoAddURLWithPreference \/ DoAddURLs => Only({"urls"})
    /\ DoAddPhoto => Only({"photo"})
    /\ DoAddNote => Only({"note"})
    /\ DoAddBirthday => Only({"birthday"})
    /\ DoAddAnniversary => Only({"anniversary"})
    /\ DoAddCustomProperty \/ DoAddCustomProperties => Only({"customProps"})

C30_StableSnapshot ==
    /\ Elems(heap, held.emails) = held.then.emails
    /\ Elems(heap, held.phones) = held.then.phones
    /\ Elems(heap, held.addresses) = held.then.addresses
    /\ Elems(heap, held.urls) = held.then.urls
    /\ held.customProps # 0 => heap[held.customProps] = held.then.customProps

====
